---------------------------- MODULE Spec2Model ----------------------------
(***************************************************************************)
(* bmlab: the evaluation loop of EvaluationController (controllers.py),    *)
(* the linear key <-> grid index mapping and the derived Brillouin shift.  *)
(*                                                                         *)
(* A float is an integer, or NaN (numpy's not-a-number sentinel).  Arrays  *)
(* are functions from index tuples to floats.                              *)
(***************************************************************************)
EXTENDS Integers, Sequences, FiniteSets, TLC

(***************************************************************************)
(* Bounds of the model.                                                    *)
(***************************************************************************)
\* largest extent of one axis of a scan resolution
MaxDim == 2
\* largest number of grid points of an evaluated scan
MaxPoints == 4
\* largest number of grid points of a scan evaluated in multi-peak mode, and
\* of a scan evaluated without shared counters
MaxMultiPeakPoints == 2
MaxUnsharedPoints == 2
\* largest number of peak fits of one evaluation: grid points x frames x
\* (regions, plus the peaks of the multi-peak fit of every Brillouin region)
MaxFits == 10
\* largest number of frames (images) per grid point
MaxImages == 2
\* largest number of Brillouin regions selected
MaxBrillouinRegions == 1
\* largest number of Rayleigh regions selected
MaxRayleighRegions == 2
\* largest number of Brillouin peaks fitted per region
MaxBrillouinPeaks == 2
\* largest extent of one axis in the key <-> index checks
MaxKeyDim == 3
\* largest number of Brillouin cells, and of Rayleigh cells, of a tensor the
\* derived-value pass is checked on alone, and the passes run on it
MaxDerivedCells == 3
MaxDerivedPasses == 2

\* numpy's NaN, the sentinel every result array is pre-filled with
NaN == -1000000
\* Python's None
None == "None"

IsNaN(v) == v = NaN

(***************************************************************************)
(* str(int) and int(str) on Python integers: decimal digits, "-" first.    *)
(***************************************************************************)
Digit(d) == CASE d = 0 -> "0" [] d = 1 -> "1" [] d = 2 -> "2" [] d = 3 -> "3"
              [] d = 4 -> "4" [] d = 5 -> "5" [] d = 6 -> "6" [] d = 7 -> "7"
              [] d = 8 -> "8" [] d = 9 -> "9"

DigitValue(c) == CHOOSE d \in 0..9 : Digit(d) = c

RECURSIVE StrNat(_)
StrNat(n) == IF n < 10 THEN <<Digit(n)>>
             ELSE Append(StrNat(n \div 10), Digit(n % 10))

\* str(n)
Str(n) == IF n < 0 THEN <<"-">> \o StrNat(-n) ELSE StrNat(n)

RECURSIVE IntNat(_)
IntNat(s) == IF Len(s) = 0 THEN 0
             ELSE 10 * IntNat(SubSeq(s, 1, Len(s) - 1)) + DigitValue(s[Len(s)])

\* int(s)
ParseInt(s) == IF Len(s) > 0 /\ s[1] = "-" THEN -IntNat(Tail(s)) ELSE IntNat(s)

\* a call either returns a value or raises
Returned(v) == [raised |-> None, value |-> v]
Raised(e) == [raised |-> e, value |-> None]

(***************************************************************************)
(* Floats with infinities, and the strings of the bounds settings.         *)
(***************************************************************************)
\* np.Inf
Infinity == 900000

IsFinite(v) == v # NaN /\ v # Infinity /\ v # -Infinity

\* abs(v), -v, a + b and a * b on floats
FloatAbs(v) == IF v = NaN THEN NaN ELSE IF v < 0 THEN -v ELSE v
FloatNeg(v) == IF v = NaN THEN NaN ELSE -v
FloatAdd(a, b) ==
    IF a = NaN \/ b = NaN THEN NaN
    ELSE IF ~IsFinite(a) /\ ~IsFinite(b) THEN IF a = b THEN a ELSE NaN
    ELSE IF ~IsFinite(a) THEN a
    ELSE IF ~IsFinite(b) THEN b
    ELSE a + b
FloatMul(a, b) ==
    IF a = NaN \/ b = NaN THEN NaN
    ELSE IF IsFinite(a) /\ IsFinite(b) THEN a * b
    ELSE IF a = 0 \/ b = 0 THEN NaN
    ELSE IF (a > 0) = (b > 0) THEN Infinity ELSE -Infinity

\* a < b on floats: False when either is NaN
FloatLess(a, b) == a # NaN /\ b # NaN /\ a < b

\* the tokens of a bounds setting, as Python strings
TokenMin == <<"m", "i", "n">>
TokenMax == <<"m", "a", "x">>
TokenInf == <<"i", "n", "f">>
TokenNegInf == <<"-", "i", "n", "f">>
TokenNan == <<"n", "a", "n">>

\* str.lower() on the letters the tokens are written with
LowerChar(c) == CASE c = "M" -> "m" [] c = "I" -> "i" [] c = "N" -> "n"
                  [] c = "A" -> "a" [] c = "X" -> "x" [] c = "F" -> "f"
                  [] OTHER -> c
Lower(s) == [i \in DOMAIN s |-> LowerChar(s[i])]

IsDigits(s) ==
    /\ Len(s) > 0
    /\ \A i \in DOMAIN s : \E d \in 0..9 : s[i] = Digit(d)

\* float(s) for integer literals, 'inf', '-inf' and 'nan' in any case;
\* ValueError for any other string
PyFloat(s) ==
    IF IsDigits(s) THEN Returned(IntNat(s))
    ELSE IF Len(s) > 1 /\ s[1] = "-" /\ IsDigits(Tail(s))
    THEN Returned(-IntNat(Tail(s)))
    ELSE IF Lower(s) = TokenInf THEN Returned(Infinity)
    ELSE IF Lower(s) = TokenNegInf THEN Returned(-Infinity)
    ELSE IF Lower(s) = TokenNan THEN Returned(NaN)
    ELSE Raised("ValueError")

(***************************************************************************)
(* EvaluationController.get_key_from_indices / get_indices_from_key.       *)
(* A call either returns a value or raises.                                *)
(***************************************************************************)

\* get_key_from_indices with ">" where the code has ">="
get_key_from_indices_gt(resolution, ind_x, ind_y, ind_z) ==
    IF Len(resolution) # 3 THEN Raised("ValueError")
    ELSE IF ind_x > resolution[1] THEN Raised("IndexError")
    ELSE IF ind_y > resolution[2] THEN Raised("IndexError")
    ELSE IF ind_z > resolution[3] THEN Raised("IndexError")
    ELSE Returned(Str(ind_z * (resolution[1] * resolution[2])
                      + ind_y * resolution[1] + ind_x))

get_key_from_indices(resolution, ind_x, ind_y, ind_z) ==
    IF Len(resolution) # 3 THEN Raised("ValueError")
    ELSE IF ind_x >= resolution[1] THEN Raised("IndexError")
    ELSE IF ind_y >= resolution[2] THEN Raised("IndexError")
    ELSE IF ind_z >= resolution[3] THEN Raised("IndexError")
    ELSE Returned(Str(ind_z * (resolution[1] * resolution[2])
                      + ind_y * resolution[1] + ind_x))

\* math.floor(a / b) for b > 0; TLA+'s \div rounds towards minus infinity
FloorDiv(a, b) == a \div b

\* get_indices_from_key with the formula its commented-out line has:
\* ind_y = (key - ind_x) % resolution[0]
get_indices_from_key_mod_y(resolution, key_str) ==
    LET key == ParseInt(key_str)
        ind_z == FloorDiv(key, resolution[1] * resolution[2])
        ind_x == (key % (resolution[1] * resolution[2])) % resolution[1]
        ind_y == (key - ind_x) % resolution[1]
    IN  IF resolution[1] * resolution[2] = 0 THEN Raised("ZeroDivisionError")
        ELSE IF ind_x >= resolution[1] \/ ind_y >= resolution[2]
           \/ ind_z >= resolution[3]
        THEN Raised("ValueError")
        ELSE Returned(<<ind_x, ind_y, ind_z>>)

get_indices_from_key(resolution, key_str) ==
    LET key == ParseInt(key_str)
        ind_z == FloorDiv(key, resolution[1] * resolution[2])
        ind_y == FloorDiv(key - ind_z * (resolution[1] * resolution[2]),
                          resolution[1])
        ind_x == (key % (resolution[1] * resolution[2])) % resolution[1]
    IN  IF resolution[1] * resolution[2] = 0 THEN Raised("ZeroDivisionError")
        ELSE IF ind_x >= resolution[1] \/ ind_y >= resolution[2]
           \/ ind_z >= resolution[3]
        THEN Raised("ValueError")
        ELSE Returned(<<ind_x, ind_y, ind_z>>)


(***************************************************************************)
(* numpy arrays: a shape and one float per index tuple (0-based).          *)
(***************************************************************************)
\* np.ndindex(shape): every index tuple of an array of that shape
RECURSIVE Indices(_)
Indices(shape) ==
    IF Len(shape) = 0 THEN {<<>>}
    ELSE {<<i>> \o t : i \in 0..(Head(shape) - 1), t \in Indices(Tail(shape))}

FilledArray(shape, v) == [shape |-> shape, data |-> [t \in Indices(shape) |-> v]]

\* np.empty(shape); a[:] = np.nan
NanArray(shape) == FilledArray(shape, NaN)

\* [] : the value of every results entry of a fresh EvaluationModel
EmptyArray == [shape |-> <<0>>, data |-> <<>>]

\* ndarray.size
Size(a) == Cardinality(DOMAIN a.data)

\* a[cells' indices] = cells' values
SetCells(a, cells) ==
    [a EXCEPT !.data = [t \in DOMAIN a.data |->
                          IF t \in DOMAIN cells THEN cells[t] ELSE a.data[t]]]

\* np.isnan(a).all()
AllNaN(f) == \A t \in DOMAIN f : IsNaN(f[t])

\* a - b and abs(a - b) on floats: NaN propagates
Sub(a, b) == IF IsNaN(a) \/ IsNaN(b) THEN NaN ELSE a - b
AbsDiff(a, b) == IF IsNaN(a) \/ IsNaN(b) THEN NaN
                 ELSE IF a >= b THEN a - b ELSE b - a

\* np.min in place of np.nanmin: NaN as soon as one entry is NaN
MinPropagatingNaN(S) ==
    IF NaN \in S \/ S = {} THEN NaN ELSE CHOOSE m \in S : \A v \in S : m <= v

\* np.nanmin over a set of floats: NaN when every entry is NaN
NanMin(S) == LET real == {v \in S : ~IsNaN(v)}
             IN  IF real = {} THEN NaN
                 ELSE CHOOSE m \in real : \A v \in real : m <= v

(***************************************************************************)
(* EvaluationModel.results as evaluate uses it.                            *)
(***************************************************************************)
GeneralKeys == {"time", "intensity"}
BrillouinKeys == {"brillouin_peak_position_f", "brillouin_peak_fwhm_f",
                  "brillouin_peak_intensity", "brillouin_peak_offset",
                  "brillouin_shift_f"}
RayleighKeys == {"rayleigh_peak_position_f", "rayleigh_peak_fwhm_f",
                 "rayleigh_peak_intensity", "rayleigh_peak_offset",
                 "rayleigh_shift"}
ResultKeys == GeneralKeys \cup BrillouinKeys \cup RayleighKeys

\* EvaluationModel.__init__: every entry is []
EmptyResults == [k \in ResultKeys |-> EmptyArray]

\* peak-axis length: slot 0 for the single-peak fit, slots 1..n for a
\* multi-peak fit of n > 1 peaks
NrPeaksStored(nr_peaks) == IF nr_peaks > 1 THEN nr_peaks + 1 ELSE nr_peaks

ShapeGeneral(dims) ==
    <<dims.dim_x, dims.dim_y, dims.dim_z, dims.nr_images, 1, 1>>
ShapeBrillouin(dims) ==
    <<dims.dim_x, dims.dim_y, dims.dim_z, dims.nr_images,
      dims.nr_brillouin_regions, NrPeaksStored(dims.nr_brillouin_peaks)>>
ShapeRayleigh(dims) ==
    <<dims.dim_x, dims.dim_y, dims.dim_z, dims.nr_images,
      dims.nr_rayleigh_regions, 1>>

ShapeOf(key, dims) == IF key \in GeneralKeys THEN ShapeGeneral(dims)
                      ELSE IF key \in BrillouinKeys THEN ShapeBrillouin(dims)
                      ELSE ShapeRayleigh(dims)

\* EvaluationModel.initialize_results_arrays(dims)
initialize_results_arrays(dims) ==
    [k \in ResultKeys |-> NanArray(ShapeOf(k, dims))]

(***************************************************************************)
(* calculate_derived_values(): the Brillouin shift of every Brillouin cell *)
(* is the smallest |position - Rayleigh position| over the Rayleigh        *)
(* regions of the same point and frame.                                    *)
(***************************************************************************)
\* the index of Rayleigh region idx at the point and frame of Brillouin cell t
RayleighCell(t, idx) == <<t[1], t[2], t[3], t[4], idx, 0>>

\* the distances stored without np.nanmin: the Rayleigh axis is kept
DerivedShiftAllDistances(brillouin, rayleigh) ==
    [shape |-> brillouin.shape \o <<rayleigh.shape[5]>>,
     data |-> [t \in Indices(brillouin.shape \o <<rayleigh.shape[5]>>) |->
                 AbsDiff(brillouin.data[SubSeq(t, 1, 6)],
                         rayleigh.data[RayleighCell(t, t[7])])]]

DerivedShift(brillouin, rayleigh) ==
    [shape |-> brillouin.shape,
     data |-> [t \in DOMAIN brillouin.data |->
                 NanMin({AbsDiff(brillouin.data[t],
                                 rayleigh.data[RayleighCell(t, idx)]) :
                         idx \in 0..(rayleigh.shape[5] - 1)})]]

\* a pass that stores the shifts over the Brillouin positions
calculate_derived_values_in_place(evm_present, res) ==
    IF ~evm_present THEN res
    ELSE IF Size(res["brillouin_peak_position_f"]) = 0 THEN res
    ELSE IF Size(res["rayleigh_peak_position_f"]) = 0 THEN res
    ELSE [res EXCEPT !["brillouin_peak_position_f"] =
            DerivedShift(res["brillouin_peak_position_f"],
                         res["rayleigh_peak_position_f"])]

calculate_derived_values(evm_present, res) ==
    IF ~evm_present THEN res
    ELSE IF Size(res["brillouin_peak_position_f"]) = 0 THEN res
    ELSE IF Size(res["rayleigh_peak_position_f"]) = 0 THEN res
    ELSE [res EXCEPT !["brillouin_shift_f"] =
            DerivedShift(res["brillouin_peak_position_f"],
                         res["rayleigh_peak_position_f"])]


(***************************************************************************)
(* State.                                                                  *)
(***************************************************************************)
VARIABLES
    session,                \* the Session singleton's data for the current
                            \* repetition: which models exist, the payload's
                            \* resolution and frames, the selected regions
    evm_nr_brillouin_peaks, \* EvaluationModel.nr_brillouin_peaks
    evm_bounds_w0,          \* EvaluationModel.bounds_w0
    evm_bounds_fwhm,        \* EvaluationModel.bounds_fwhm
    results,                \* EvaluationModel.results
    shared,                 \* whether evaluate got abort, count and max_count
    abort,                  \* abort.value
    count,                  \* count.value
    max_count,              \* max_count.value
    pc,                     \* where evaluate is
    idx,                    \* the loop's position in image_keys
    nr_brillouin_peaks,     \* evaluate's local copy of the peak count
    rayleigh_peak_initial,  \* evaluate's local Rayleigh drift reference
    pool,                   \* the multiprocessing pool evaluate created
    trace,                  \* what the loop did at each point visited so far
    max_count_writes,       \* number of assignments to max_count.value
    derived_calls,          \* number of calculate_derived_values() calls
    call,                   \* a call of a pure function: its arguments
    ret                     \* and what it returned

vars == <<session, evm_nr_brillouin_peaks, evm_bounds_w0, evm_bounds_fwhm,
          results, shared, abort, count, max_count, pc, idx,
          nr_brillouin_peaks, rayleigh_peak_initial, pool, trace,
          max_count_writes, derived_calls, call, ret>>

evalVars == <<session, evm_nr_brillouin_peaks, evm_bounds_w0, evm_bounds_fwhm,
              results, shared, abort, count, max_count, pc, idx,
              nr_brillouin_peaks, rayleigh_peak_initial, pool, trace,
              max_count_writes, derived_calls>>

NoCall == [op |-> "none"]

(***************************************************************************)
(* The inputs of an evaluation.                                            *)
(***************************************************************************)
ModelNames == {"em", "cm", "pm", "evm"}

Resolutions ==
    {r \in (1..MaxDim) \X (1..MaxDim) \X (1..MaxDim) :
        r[1] * r[2] * r[3] <= MaxPoints}

NrPoints(resolution) == resolution[1] * resolution[2] * resolution[3]

\* session.get_image_keys(True): the keys '0', '1', ... of the grid points
ImageKeys(resolution) == [i \in 1..NrPoints(resolution) |-> Str(i - 1)]

\* the regions (start, end) of the peak selection model, in selection order
BrillouinRegions(n) == [k \in 1..n |-> <<10 * k, 10 * k + 1>>]
RayleighRegions(n) == [k \in 1..n |-> <<25 * k - 20, 25 * k - 19>>]

\* the settings of set_bounds / set_bounds_fwhm: unset, or one token pair
NoBounds == [is_none |-> TRUE, pairs |-> <<>>]
BoundsSettings ==
    {NoBounds, [is_none |-> FALSE, pairs |-> << <<TokenMin, TokenMax>> >>]}

Sessions ==
    {s \in [models : SUBSET ModelNames,
            resolution : Resolutions,
            nr_frames : 0..MaxImages,
            arc0 : BOOLEAN,
            brillouin_regions : {BrillouinRegions(n) :
                                    n \in 0..MaxBrillouinRegions},
            rayleigh_regions : {RayleighRegions(n) :
                                    n \in 0..MaxRayleighRegions}] :
        Cardinality(ModelNames \ s.models) <= 1}

Dims(s, nr_images, nr_peaks) ==
    [dim_x |-> s.resolution[1], dim_y |-> s.resolution[2],
     dim_z |-> s.resolution[3], nr_images |-> nr_images,
     nr_brillouin_regions |-> Len(s.brillouin_regions),
     nr_brillouin_peaks |-> nr_peaks,
     nr_rayleigh_regions |-> Len(s.rayleigh_regions)]

\* the number of peak fits an evaluation of session s asks for
NrFits(s, nr_peaks) ==
    NrPoints(s.resolution) * s.nr_frames
    * (Len(s.brillouin_regions) + Len(s.rayleigh_regions)
       + IF nr_peaks > 1 THEN nr_peaks * Len(s.brillouin_regions) ELSE 0)

\* results left by an earlier evaluation of the same repetition
EarlierResults(s) ==
    [k \in ResultKeys |-> FilledArray(ShapeOf(k, Dims(s, 1, 1)), 1)]

InitEvaluation ==
    /\ session \in Sessions
    /\ evm_nr_brillouin_peaks \in 1..MaxBrillouinPeaks
    /\ NrFits(session, evm_nr_brillouin_peaks) <= MaxFits
    /\ evm_nr_brillouin_peaks > 1 =>
          NrPoints(session.resolution) <= MaxMultiPeakPoints
    /\ evm_bounds_w0 \in
          IF evm_nr_brillouin_peaks > 1 THEN BoundsSettings ELSE {NoBounds}
    /\ evm_bounds_fwhm \in
          IF evm_nr_brillouin_peaks > 1 THEN BoundsSettings ELSE {NoBounds}
    /\ results \in IF "evm" \in session.models
                   THEN {EmptyResults, EarlierResults(session)}
                   ELSE {EmptyResults}
    /\ shared \in BOOLEAN
    /\ ~shared => NrPoints(session.resolution) <= MaxUnsharedPoints
    /\ abort = IF shared THEN FALSE ELSE None
    /\ count = IF shared THEN 0 ELSE None
    /\ max_count = IF shared THEN 0 ELSE None
    /\ pc = "Idle"
    /\ idx = 0
    /\ nr_brillouin_peaks = None
    /\ rayleigh_peak_initial = None
    /\ pool = "none"
    /\ trace = <<>>
    /\ max_count_writes = 0
    /\ derived_calls = 0

Init == InitEvaluation /\ call = NoCall /\ ret = NoCall


(***************************************************************************)
(* EvaluationController.evaluate: initialization.                          *)
(***************************************************************************)
\* the four "if not <model>" checks
ModelsPresent(s) == \A m \in ModelNames : m \in s.models

\* extract_spectra('0'): None without an arc, else one spectrum per frame
ProbeSpectra(s) == [is_none |-> ~s.arc0,
                    len |-> IF s.arc0 THEN s.nr_frames ELSE 0]

\* "if not spectra": None, or an empty list
NotSpectra(spectra) == spectra.is_none \/ spectra.len = 0

\* the checks of evaluate without the probe of key '0'
InitializationFailsNoProbe(s) == ~ModelsPresent(s)

\* the checks of evaluate that end it with max_count.value = -1
InitializationFails(s) ==
    \/ ~ModelsPresent(s)
    \/ NotSpectra(ProbeSpectra(s))

\* the total written a second time after the probe
InitMaxCountWritesTwice(s) ==
    IF ~ModelsPresent(s) THEN <<-1>>
    ELSE IF NotSpectra(ProbeSpectra(s))
         THEN <<Len(ImageKeys(s.resolution)), -1>>
         ELSE <<Len(ImageKeys(s.resolution)), Len(ImageKeys(s.resolution))>>

\* the assignments to max_count.value before the loop, in order
InitMaxCountWrites(s) ==
    IF ~ModelsPresent(s) THEN <<-1>>
    ELSE IF NotSpectra(ProbeSpectra(s))
         THEN <<Len(ImageKeys(s.resolution)), -1>>
         ELSE <<Len(ImageKeys(s.resolution))>>

EvaluateFail ==
    /\ pc = "Idle"
    /\ InitializationFails(session)
    /\ pc' = "Failed"
    /\ IF shared
       THEN LET w == InitMaxCountWrites(session)
            IN  /\ max_count' = w[Len(w)]
                /\ max_count_writes' = max_count_writes + Len(w)
       ELSE UNCHANGED <<max_count, max_count_writes>>
    /\ UNCHANGED <<session, evm_nr_brillouin_peaks, evm_bounds_w0,
                   evm_bounds_fwhm, results, shared, abort, count, idx,
                   nr_brillouin_peaks, rayleigh_peak_initial, pool, trace,
                   derived_calls, call, ret>>

\* np.nan * np.ones((len(spectra), len(rayleigh_regions), 1))
InitialRayleighPeak(nr_images, nr_rayleigh) ==
    [t \in Indices(<<nr_images, nr_rayleigh, 1>>) |-> NaN]

EvaluateInit ==
    /\ pc = "Idle"
    /\ ~InitializationFails(session)
    /\ IF shared
       THEN LET w == InitMaxCountWrites(session)
            IN  /\ max_count' = w[Len(w)]
                /\ max_count_writes' = max_count_writes + Len(w)
       ELSE UNCHANGED <<max_count, max_count_writes>>
    /\ nr_brillouin_peaks' = evm_nr_brillouin_peaks
    /\ results' = initialize_results_arrays(
                      Dims(session, ProbeSpectra(session).len,
                           evm_nr_brillouin_peaks))
    /\ pool' = "open"
    /\ rayleigh_peak_initial' =
          InitialRayleighPeak(ProbeSpectra(session).len,
                              Len(session.rayleigh_regions))
    /\ idx' = 0
    /\ pc' = "Running"
    /\ UNCHANGED <<session, evm_nr_brillouin_peaks, evm_bounds_w0,
                   evm_bounds_fwhm, shared, abort, count, trace,
                   derived_calls, call, ret>>

(***************************************************************************)
(* EvaluationController.evaluate: one pass of the loop over image_keys.    *)
(***************************************************************************)
Frames == 0..(session.nr_frames - 1)
NrBrillouin == Len(session.brillouin_regions)
NrRayleigh == Len(session.rayleigh_regions)

InLoop == pc = "Running" /\ idx < Len(ImageKeys(session.resolution))

\* (ind_x, ind_y, ind_z) of the loop's current key
CurrentPoint ==
    get_indices_from_key(session.resolution,
                         ImageKeys(session.resolution)[idx + 1]).value

\* a pass that leaves count.value as it is
CountStepMissing == count' = count

\* count.value += 1
CountStep == count' = IF shared THEN count + 1 ELSE count

\* a loop that never looks at the abort flag
AbortIgnored == FALSE

\* (abort is not None) and abort.value
AbortRequested == shared /\ abort

\* extract_spectra(image_key): None without an arc.  The probe has shown
\* that key '0' has one.
ExtractionOutcomes(i) == IF i = 0 THEN {"spectra"} ELSE {"spectra", None}

\* cm.get_frequencies_by_time(times)
FrequencyOutcomes == {"frequencies", None}

\* exposure * np.arange(len(imgs)) + time, np.nanmean(imgs, axis=(1, 2))
PayloadTime(i, frame) == 100 * (i + 1) + frame
PayloadIntensity(i, frame) == 1

\* results['time'][x, y, z, :, 0, 0] = times, and likewise intensity
WriteGeneral(res, p, i) ==
    [res EXCEPT
       !["time"] = SetCells(@,
           [t \in {<<p[1], p[2], p[3], f, 0, 0>> : f \in Frames} |->
               PayloadTime(i, t[4])]),
       !["intensity"] = SetCells(@,
           [t \in {<<p[1], p[2], p[3], f, 0, 0>> : f \in Frames} |->
               PayloadIntensity(i, t[4])])]

\* what fit_lorentz_region returns for one peak: (w0, fwhm, intensity,
\* offset), all NaN when the fit fails
MissingFit == <<NaN, NaN, NaN, NaN>>
SingleFits(region) ==
    {MissingFit} \cup {<<w0, 1, 1, 0>> : w0 \in region[1]..(region[2] - 1)}

\* and for n peaks: arrays of n centers, widths and intensities, one offset
MultiFits(region, n) ==
    {<<[k \in 1..n |-> NaN], [k \in 1..n |-> NaN], [k \in 1..n |-> NaN], NaN>>}
    \cup {<<[k \in 1..n |-> w0 + (k - 1)], [k \in 1..n |-> 1],
            [k \in 1..n |-> 1], 0>> : w0 \in region[1]..(region[2] - 1)}

\* regions = brillouin_regions + rayleigh_regions
Regions == session.brillouin_regions \o session.rayleigh_regions

\* pool.starmap(self.fit_spectra, ...): per region key and frame, one fit
SingleBatches ==
    {b \in [(0..(Len(Regions) - 1)) \X Frames ->
              UNION {SingleFits(Regions[r]) : r \in 1..Len(Regions)}] :
        \A k \in DOMAIN b : b[k] \in SingleFits(Regions[k[1] + 1])}

MultiBatches(n) ==
    {b \in [(0..(NrBrillouin - 1)) \X Frames ->
              UNION {MultiFits(Regions[r], n) : r \in 1..NrBrillouin}] :
        \A k \in DOMAIN b : b[k] \in MultiFits(Regions[k[1] + 1], n)}

BrillouinField(key) ==
    CASE key = "brillouin_peak_position_f" -> 1
      [] key = "brillouin_peak_fwhm_f" -> 2
      [] key = "brillouin_peak_intensity" -> 3
      [] key = "brillouin_peak_offset" -> 4

RayleighField(key) ==
    CASE key = "rayleigh_peak_position_f" -> 1
      [] key = "rayleigh_peak_fwhm_f" -> 2
      [] key = "rayleigh_peak_intensity" -> 3
      [] key = "rayleigh_peak_offset" -> 4

FitKeysBrillouin == BrillouinKeys \ {"brillouin_shift_f"}
FitKeysRayleigh == RayleighKeys \ {"rayleigh_shift"}

\* the peak-axis slot the single-peak fit is written to
SinglePeakSlot == 0

\* "Unpack the results": the single-peak fits of every frame and region
WriteSingle(res, p, fits) ==
    [k \in ResultKeys |->
       IF k \in FitKeysBrillouin
       THEN SetCells(res[k],
              [t \in {<<p[1], p[2], p[3], f, r, SinglePeakSlot>> :
                         f \in Frames, r \in 0..(NrBrillouin - 1)} |->
                  fits[<<t[5], t[4]>>][BrillouinField(k)]])
       ELSE IF k \in FitKeysRayleigh
       THEN SetCells(res[k],
              [t \in {<<p[1], p[2], p[3], f, r, 0>> :
                         f \in Frames, r \in 0..(NrRayleigh - 1)} |->
                  fits[<<t[5] + NrBrillouin, t[4]>>][RayleighField(k)]])
       ELSE res[k]]

\* the peak-axis slots slice(1, nr_brillouin_peaks + 1)
MultiPeakSlots(n) == 1..n

\* the multi-peak fits unpacked into slice(0, nr_brillouin_peaks)
WriteMultiFromZero(res, p, fits, n) ==
    [k \in ResultKeys |->
       IF k \in FitKeysBrillouin
       THEN SetCells(res[k],
              [t \in {<<p[1], p[2], p[3], f, r, s>> :
                         f \in Frames, r \in 0..(NrBrillouin - 1),
                         s \in 0..(n - 1)} |->
                  IF k = "brillouin_peak_offset"
                  THEN fits[<<t[5], t[4]>>][4]
                  ELSE fits[<<t[5], t[4]>>][BrillouinField(k)][t[6] + 1]])
       ELSE res[k]]

\* the multi-peak fits; the shared offset is broadcast over the slots
WriteMulti(res, p, fits, n) ==
    [k \in ResultKeys |->
       IF k \in FitKeysBrillouin
       THEN SetCells(res[k],
              [t \in {<<p[1], p[2], p[3], f, r, s>> :
                         f \in Frames, r \in 0..(NrBrillouin - 1),
                         s \in MultiPeakSlots(n)} |->
                  IF k = "brillouin_peak_offset"
                  THEN fits[<<t[5], t[4]>>][4]
                  ELSE fits[<<t[5], t[4]>>][BrillouinField(k)][t[6]]])
       ELSE res[k]]

(***************************************************************************)
(* EvaluationController.create_bounds(brillouin_regions, rayleigh_peaks):  *)
(* rayleigh_peaks has one row per Rayleigh region and one column per       *)
(* frame; the result has one sorted pair per region, frame and bound.      *)
(***************************************************************************)
\* 1e9, with the model's frequencies counted in MHz
GHz == 1000

RECURSIVE SumSeq(_)
SumSeq(q) == IF Len(q) = 0 THEN 0 ELSE Head(q) + SumSeq(Tail(q))

\* np.nanmean(rayleigh_peaks[:, rayleigh_idx]) as count and sum of the
\* entries that are not NaN (count 0: the mean is NaN)
anti_stokes_limit(rayleigh_peaks, rayleigh_idx) ==
    LET rows == {r \in 0..(rayleigh_peaks.shape[1] - 1) :
                    ~IsNaN(rayleigh_peaks.data[<<r, rayleigh_idx>>])}
        column == [r \in 0..(rayleigh_peaks.shape[1] - 1) |->
                     IF r \in rows THEN rayleigh_peaks.data[<<r, rayleigh_idx>>]
                     ELSE 0]
    IN  [n |-> Cardinality(rows),
         sum |-> SumSeq([k \in 1..rayleigh_peaks.shape[1] |-> column[k - 1]])]

\* e >= limit and m/2 > limit on floats, limit given as count and sum
AtLeastLimit(e, limit) == limit.n > 0 /\ e * limit.n >= limit.sum
HalfAboveLimit(m, limit) == limit.n > 0 /\ m * limit.n > 2 * limit.sum

\* tmp = region >= anti_stokes_limit; (tmp == tmp[0]).all()
is_pure_region(region, limit) ==
    AtLeastLimit(region[2], limit) = AtLeastLimit(region[1], limit)

\* np.mean(region) > anti_stokes_limit
is_anti_stokes_region(region, limit) ==
    HalfAboveLimit(region[1] + region[2], limit)

\* float(limit), or NaN on ValueError, for every limit of the bound
parsed_bound(bound) ==
    [i \in DOMAIN bound |->
        IF PyFloat(bound[i]).raised = None THEN PyFloat(bound[i]).value
        ELSE NaN]

\* np.nanmean(parsed_bound[np.isfinite(parsed_bound)]) < 0
is_anti_stokes_peak(bound) ==
    LET finite == SelectSeq(parsed_bound(bound), IsFinite)
    IN  Len(finite) > 0 /\ SumSeq(finite) < 0

\* is_anti_stokes_region if is_pure_region else is_anti_stokes_peak, always
\* the peak's side
is_anti_stokes_by_peak(region, limit, bound) == is_anti_stokes_peak(bound)

\* is_anti_stokes_region if is_pure_region else is_anti_stokes_peak
is_anti_stokes(region, limit, bound) ==
    IF is_pure_region(region, limit) THEN is_anti_stokes_region(region, limit)
    ELSE is_anti_stokes_peak(bound)

\* (-1) ** is_anti_stokes
Polarity(anti_stokes) == IF anti_stokes THEN -1 ELSE 1

\* the numeric branch without abs(): the sign of the token is kept
NumericLimitSigned(limit, anti_stokes, rayleigh_peaks, rayleigh_idx) ==
    IF PyFloat(limit).raised # None THEN Infinity
    ELSE FloatAdd(
            FloatMul(Polarity(anti_stokes) * GHz, PyFloat(limit).value),
            rayleigh_peaks.data[<<IF anti_stokes THEN 1 ELSE 0,
                                  rayleigh_idx>>])

\* ((-1) ** is_anti_stokes) * 1e9 * abs(float(limit))
\*    + rayleigh_peaks[int(is_anti_stokes), rayleigh_idx],
\* np.Inf when float(limit) raises
NumericLimit(limit, anti_stokes, rayleigh_peaks, rayleigh_idx) ==
    IF PyFloat(limit).raised # None THEN Infinity
    ELSE FloatAdd(
            FloatMul(Polarity(anti_stokes) * GHz,
                     FloatAbs(PyFloat(limit).value)),
            rayleigh_peaks.data[<<IF anti_stokes THEN 1 ELSE 0,
                                  rayleigh_idx>>])

\* val for one limit of a bound
TranslateLimit(limit, region, anti_stokes, rayleigh_peaks, rayleigh_idx) ==
    IF Lower(limit) = TokenMin
    THEN region[IF anti_stokes THEN 2 ELSE 1]
    ELSE IF Lower(limit) = TokenMax
    THEN region[IF anti_stokes THEN 1 ELSE 2]
    ELSE IF Lower(limit) = TokenNegInf
    THEN FloatNeg(FloatMul(Polarity(anti_stokes), Infinity))
    ELSE IF Lower(limit) = TokenInf
    THEN FloatMul(Polarity(anti_stokes), Infinity)
    ELSE NumericLimit(limit, anti_stokes, rayleigh_peaks, rayleigh_idx)

\* local_limit before it is sorted
local_limit(bound, region, rayleigh_peaks, rayleigh_idx) ==
    [i \in DOMAIN bound |->
        TranslateLimit(bound[i], region,
                       is_anti_stokes(region,
                           anti_stokes_limit(rayleigh_peaks, rayleigh_idx),
                           bound),
                       rayleigh_peaks, rayleigh_idx)]

\* list.sort() on a pair: the two are swapped when the second is less
SortPair(pair) ==
    IF FloatLess(pair[2], pair[1]) THEN <<pair[2], pair[1]>> ELSE pair

\* w0_bounds[region_idx][rayleigh_idx][bound_idx] before the sort
local_limits(bounds, brillouin_regions, rayleigh_peaks) ==
    [r \in DOMAIN brillouin_regions |->
       [f \in 1..rayleigh_peaks.shape[2] |->
          [b \in DOMAIN bounds.pairs |->
             local_limit(bounds.pairs[b], brillouin_regions[r],
                         rayleigh_peaks, f - 1)]]]

create_bounds(bounds, brillouin_regions, rayleigh_peaks) ==
    IF bounds.is_none THEN [is_none |-> TRUE, w0_bounds |-> <<>>]
    ELSE IF rayleigh_peaks.shape[1] # 2
    THEN [is_none |-> TRUE, w0_bounds |-> <<>>]
    ELSE [is_none |-> FALSE,
          w0_bounds |->
             LET limits == local_limits(bounds, brillouin_regions,
                                        rayleigh_peaks)
             IN  [r \in DOMAIN limits |->
                    [f \in DOMAIN limits[r] |->
                       [b \in DOMAIN limits[r][f] |->
                          SortPair(limits[r][f][b])]]]]

\* create_bounds(...) is None: no setting, or not two rows of Rayleigh peaks
create_bounds_is_none(bounds, nr_rayleigh_rows) ==
    bounds.is_none \/ nr_rayleigh_rows # 2

\* create_bounds_fwhm(...) is None: no setting
create_bounds_fwhm_is_none(bounds_fwhm) == bounds_fwhm.is_none

\* the three ways packed_data_multi_peak is zipped: with bounds_w0 None and
\* bounds_fwhm a list, zip() is handed None and raises TypeError
MultiPeakZipRaises(w0_none, fwhm_none) ==
    ~(w0_none /\ fwhm_none) /\ ~fwhm_none /\ w0_none

\* results['rayleigh_peak_position_f'][ind_x, ind_y, ind_z, :, :, :]
RayleighPeakCurrent(res, p) ==
    [t \in Indices(<<session.nr_frames, NrRayleigh, 1>>) |->
        res["rayleigh_peak_position_f"].data[
            <<p[1], p[2], p[3], t[1], t[2], t[3]>>]]

\* a reference that follows every point with a valid Rayleigh peak
NextRayleighInitialLatest(current, initial) ==
    IF ~AllNaN(current) THEN current ELSE initial

\* "If we haven't found a valid Rayleigh peak position, but the current one
\* is valid, use it"
NextRayleighInitial(current, initial) ==
    IF ~AllNaN(current) /\ AllNaN(initial) THEN current ELSE initial

\* results['rayleigh_shift'][ind_x, ind_y, ind_z, :, :, :] = shift
WriteRayleighShift(res, p, initial) ==
    LET current == RayleighPeakCurrent(res, p)
    IN  [res EXCEPT !["rayleigh_shift"] = SetCells(@,
           [t \in {<<p[1], p[2], p[3], c[1], c[2], c[3]>> :
                      c \in DOMAIN current} |->
               Sub(current[<<t[4], t[5], t[6]>>],
                   initial[<<t[4], t[5], t[6]>>])])]

\* "Calculate the derived values every ten steps"
DerivedEvery == 10

\* a derived pass at the end of every pass
DerivedEachPass(i) == TRUE

\* "if not (idx % 10)"
DerivedDue(i) == i % DerivedEvery = 0

\* the end of a pass that fitted: drift reference, Rayleigh shift, and the
\* derived values when due
FinishPoint(res, p) ==
    LET initial == NextRayleighInitial(RayleighPeakCurrent(res, p),
                                       rayleigh_peak_initial)
        shifted == WriteRayleighShift(res, p, initial)
    IN  /\ rayleigh_peak_initial' = initial
        /\ results' = IF DerivedDue(idx)
                      THEN calculate_derived_values(TRUE, shifted)
                      ELSE shifted
        /\ derived_calls' = IF DerivedDue(idx) THEN derived_calls + 1
                            ELSE derived_calls

\* the abort flag is found set: derived values, max_count.value = -1, return
PointAbort ==
    /\ InLoop
    /\ CountStep
    /\ AbortRequested
    /\ results' = calculate_derived_values(TRUE, results)
    /\ derived_calls' = derived_calls + 1
    /\ max_count' = -1
    /\ max_count_writes' = max_count_writes + 1
    /\ trace' = Append(trace, "abort")
    /\ pc' = "Aborted"
    /\ UNCHANGED <<session, evm_nr_brillouin_peaks, evm_bounds_w0,
                   evm_bounds_fwhm, shared, abort, idx, nr_brillouin_peaks,
                   rayleigh_peak_initial, pool, call, ret>>

\* "if spectra is None: continue" that also forgets the drift reference
PointNoSpectraResetsReference ==
    /\ InLoop
    /\ CountStep
    /\ ~AbortRequested
    /\ None \in ExtractionOutcomes(idx)
    /\ rayleigh_peak_initial' =
          InitialRayleighPeak(session.nr_frames, NrRayleigh)
    /\ trace' = Append(trace, "no_spectra")
    /\ idx' = idx + 1
    /\ UNCHANGED <<session, evm_nr_brillouin_peaks, evm_bounds_w0,
                   evm_bounds_fwhm, results, shared, abort, max_count, pc,
                   nr_brillouin_peaks, pool, max_count_writes,
                   derived_calls, call, ret>>

\* "if spectra is None: continue"
PointNoSpectra ==
    /\ InLoop
    /\ CountStep
    /\ ~AbortRequested
    /\ None \in ExtractionOutcomes(idx)
    /\ trace' = Append(trace, "no_spectra")
    /\ idx' = idx + 1
    /\ UNCHANGED <<session, evm_nr_brillouin_peaks, evm_bounds_w0,
                   evm_bounds_fwhm, results, shared, abort, max_count, pc,
                   nr_brillouin_peaks, rayleigh_peak_initial, pool,
                   max_count_writes, derived_calls, call, ret>>

\* "if frequencies is None: continue", after time and intensity are stored
PointNoFrequencies ==
    /\ InLoop
    /\ CountStep
    /\ ~AbortRequested
    /\ "spectra" \in ExtractionOutcomes(idx)
    /\ None \in FrequencyOutcomes
    /\ results' = WriteGeneral(results, CurrentPoint, idx)
    /\ trace' = Append(trace, "no_frequencies")
    /\ idx' = idx + 1
    /\ UNCHANGED <<session, evm_nr_brillouin_peaks, evm_bounds_w0,
                   evm_bounds_fwhm, shared, abort, max_count, pc,
                   nr_brillouin_peaks, rayleigh_peak_initial, pool,
                   max_count_writes, derived_calls, call, ret>>

\* a pass that fits with nr_brillouin_peaks = 1
PointFit ==
    /\ InLoop
    /\ CountStep
    /\ ~AbortRequested
    /\ "spectra" \in ExtractionOutcomes(idx)
    /\ "frequencies" \in FrequencyOutcomes
    /\ ~(nr_brillouin_peaks > 1)
    /\ \E fits \in SingleBatches :
          FinishPoint(WriteSingle(WriteGeneral(results, CurrentPoint, idx),
                                  CurrentPoint, fits),
                      CurrentPoint)
    /\ trace' = Append(trace, "fit")
    /\ idx' = idx + 1
    /\ UNCHANGED <<session, evm_nr_brillouin_peaks, evm_bounds_w0,
                   evm_bounds_fwhm, shared, abort, max_count, pc,
                   nr_brillouin_peaks, pool, max_count_writes, call, ret>>

\* a pass that fits with nr_brillouin_peaks > 1
PointFitMulti ==
    /\ InLoop
    /\ CountStep
    /\ ~AbortRequested
    /\ "spectra" \in ExtractionOutcomes(idx)
    /\ "frequencies" \in FrequencyOutcomes
    /\ nr_brillouin_peaks > 1
    /\ ~MultiPeakZipRaises(
           create_bounds_is_none(evm_bounds_w0, NrRayleigh),
           create_bounds_fwhm_is_none(evm_bounds_fwhm))
    /\ \E fits \in SingleBatches :
       \E multi \in MultiBatches(nr_brillouin_peaks) :
          FinishPoint(
              WriteMulti(
                  WriteSingle(WriteGeneral(results, CurrentPoint, idx),
                              CurrentPoint, fits),
                  CurrentPoint, multi, nr_brillouin_peaks),
              CurrentPoint)
    /\ trace' = Append(trace, "fit_multi")
    /\ idx' = idx + 1
    /\ UNCHANGED <<session, evm_nr_brillouin_peaks, evm_bounds_w0,
                   evm_bounds_fwhm, shared, abort, max_count, pc,
                   nr_brillouin_peaks, pool, max_count_writes, call, ret>>

\* a pass with nr_brillouin_peaks > 1 in which zip() raises TypeError, after
\* the single-peak fits are stored: evaluate ends by the exception
PointRaise ==
    /\ InLoop
    /\ CountStep
    /\ ~AbortRequested
    /\ "spectra" \in ExtractionOutcomes(idx)
    /\ "frequencies" \in FrequencyOutcomes
    /\ nr_brillouin_peaks > 1
    /\ MultiPeakZipRaises(
           create_bounds_is_none(evm_bounds_w0, NrRayleigh),
           create_bounds_fwhm_is_none(evm_bounds_fwhm))
    /\ \E fits \in SingleBatches :
          results' = WriteSingle(WriteGeneral(results, CurrentPoint, idx),
                                 CurrentPoint, fits)
    /\ trace' = Append(trace, "raise")
    /\ pc' = "Raised"
    /\ UNCHANGED <<session, evm_nr_brillouin_peaks, evm_bounds_w0,
                   evm_bounds_fwhm, shared, abort, max_count, idx,
                   nr_brillouin_peaks, rayleigh_peak_initial, pool,
                   max_count_writes, derived_calls, call, ret>>

\* after the loop: pool.close(), pool.join(), calculate_derived_values()
EvaluateFinish ==
    /\ pc = "Running"
    /\ idx = Len(ImageKeys(session.resolution))
    /\ pool' = "closed"
    /\ results' = calculate_derived_values(TRUE, results)
    /\ derived_calls' = derived_calls + 1
    /\ pc' = "Completed"
    /\ UNCHANGED <<session, evm_nr_brillouin_peaks, evm_bounds_w0,
                   evm_bounds_fwhm, shared, abort, count, max_count, idx,
                   nr_brillouin_peaks, rayleigh_peak_initial, trace,
                   max_count_writes, call, ret>>

(***************************************************************************)
(* What runs beside evaluate.                                              *)
(***************************************************************************)
\* the caller sets abort.value while evaluate runs
SetAbort ==
    /\ pc = "Running"
    /\ shared
    /\ ~abort
    /\ abort' = TRUE
    /\ UNCHANGED <<session, evm_nr_brillouin_peaks, evm_bounds_w0,
                   evm_bounds_fwhm, results, shared, count, max_count, pc,
                   idx, nr_brillouin_peaks, rayleigh_peak_initial, pool,
                   trace, max_count_writes, derived_calls, call, ret>>

\* a setter that reaches into the running evaluation
SetNrBrillouinPeaksLive ==
    /\ pc = "Running"
    /\ "evm" \in session.models
    /\ \E n \in 1..MaxBrillouinPeaks :
          /\ n # evm_nr_brillouin_peaks
          /\ evm_nr_brillouin_peaks' = n
          /\ nr_brillouin_peaks' = n
    /\ UNCHANGED <<session, evm_bounds_w0, evm_bounds_fwhm, results, shared,
                   abort, count, max_count, pc, idx, rayleigh_peak_initial,
                   pool, trace, max_count_writes, derived_calls, call, ret>>

\* EvaluationController.set_nr_brillouin_peaks while evaluate runs
SetNrBrillouinPeaks ==
    /\ pc = "Running"
    /\ "evm" \in session.models
    /\ \E n \in 1..MaxBrillouinPeaks :
          /\ n # evm_nr_brillouin_peaks
          /\ evm_nr_brillouin_peaks' = n
    /\ UNCHANGED <<session, evm_bounds_w0, evm_bounds_fwhm, results, shared,
                   abort, count, max_count, pc, idx, nr_brillouin_peaks,
                   rayleigh_peak_initial, pool, trace, max_count_writes,
                   derived_calls, call, ret>>

Next ==
    \/ EvaluateFail
    \/ EvaluateInit
    \/ PointAbort
    \/ PointNoSpectra
    \/ PointNoFrequencies
    \/ PointFit
    \/ PointFitMulti
    \/ PointRaise
    \/ EvaluateFinish
    \/ SetAbort

Spec == Init /\ [][Next]_vars


(***************************************************************************)
(* The key <-> index mapping on its own: calls of get_key_from_indices     *)
(* with any resolution and indices, and of get_indices_from_key with the   *)
(* key such a call returned or with any key.                               *)
(***************************************************************************)
\* no evaluation in progress
ParkedEvaluation ==
    /\ session = [models |-> {}, resolution |-> <<1, 1, 1>>, nr_frames |-> 0,
                  arc0 |-> FALSE, brillouin_regions |-> <<>>,
                  rayleigh_regions |-> <<>>]
    /\ evm_nr_brillouin_peaks = 1
    /\ evm_bounds_w0 = NoBounds
    /\ evm_bounds_fwhm = NoBounds
    /\ results = EmptyResults
    /\ shared = FALSE
    /\ abort = None
    /\ count = None
    /\ max_count = None
    /\ pc = "Idle"
    /\ idx = 0
    /\ nr_brillouin_peaks = None
    /\ rayleigh_peak_initial = None
    /\ pool = "none"
    /\ trace = <<>>
    /\ max_count_writes = 0
    /\ derived_calls = 0

KeyResolutions ==
    [1..3 -> 0..MaxKeyDim] \cup [1..2 -> 1..2] \cup [1..4 -> 1..2]

KeyIndices == -1..MaxKeyDim

KeyStrings == {Str(k) : k \in -1..(MaxKeyDim * MaxKeyDim * MaxKeyDim + 1)}

\* the calls made: the arguments are drawn here, the actions apply the
\* functions to them
KeyCalls ==
    {[op |-> "get_key_from_indices", resolution |-> resolution,
      ind |-> <<ind_x, ind_y, ind_z>>, key |-> <<>>] :
        resolution \in KeyResolutions,
        ind_x \in KeyIndices, ind_y \in KeyIndices, ind_z \in KeyIndices}
    \cup
    {[op |-> "get_indices_from_key", resolution |-> resolution,
      ind |-> <<>>, key |-> key] :
        resolution \in [1..3 -> 0..MaxKeyDim], key \in KeyStrings}

InitKeys == ParkedEvaluation /\ call \in KeyCalls /\ ret = NoCall

CallGetKey ==
    /\ call.op = "get_key_from_indices"
    /\ ret = NoCall
    /\ ret' = get_key_from_indices(call.resolution,
                                   call.ind[1], call.ind[2], call.ind[3])
    /\ UNCHANGED <<call, evalVars>>

\* get_indices_from_key on the key the last get_key_from_indices returned
CallGetIndicesOfKey ==
    /\ call.op = "get_key_from_indices"
    /\ ret # NoCall
    /\ ret.raised = None
    /\ call' = [op |-> "get_indices_from_key",
                resolution |-> call.resolution,
                ind |-> call.ind, key |-> ret.value]
    /\ ret' = get_indices_from_key(call.resolution, ret.value)
    /\ UNCHANGED evalVars

\* get_indices_from_key on any key
CallGetIndices ==
    /\ call.op = "get_indices_from_key"
    /\ ret = NoCall
    /\ ret' = get_indices_from_key(call.resolution, call.key)
    /\ UNCHANGED <<call, evalVars>>

NextKeys == CallGetKey \/ CallGetIndicesOfKey \/ CallGetIndices

SpecKeys == InitKeys /\ [][NextKeys]_vars

(***************************************************************************)
(* The derived-value pass on its own: calculate_derived_values() on a      *)
(* tensor with any positions stored.                                       *)
(***************************************************************************)
BrillouinPositions == {NaN, 10, 20}
RayleighPositions == {NaN, 5, 30}

DerivedDims ==
    {d \in [dim_x : 1..2, dim_y : {1}, dim_z : {1}, nr_images : {1},
            nr_brillouin_regions : 0..MaxDerivedCells,
            nr_brillouin_peaks : 1..MaxBrillouinPeaks,
            nr_rayleigh_regions : 0..MaxDerivedCells] :
        /\ d.dim_x * d.nr_brillouin_regions
              * NrPeaksStored(d.nr_brillouin_peaks) <= MaxDerivedCells
        /\ d.dim_x * d.nr_rayleigh_regions <= MaxDerivedCells}

\* the tensor of an evaluation with the given positions stored; stale says
\* whether an earlier derived-value pass has left shifts in it
TensorWith(d, brillouin, rayleigh, stale) ==
    [initialize_results_arrays(d) EXCEPT
       !["brillouin_peak_position_f"].data = brillouin,
       !["rayleigh_peak_position_f"].data = rayleigh,
       !["brillouin_shift_f"] =
            IF stale /\ d.nr_rayleigh_regions > 0
            THEN FilledArray(ShapeBrillouin(d), 1) ELSE @]

InitDerived ==
    /\ \E d \in DerivedDims :
       \E brillouin \in [Indices(ShapeBrillouin(d)) -> BrillouinPositions] :
       \E rayleigh \in [Indices(ShapeRayleigh(d)) -> RayleighPositions] :
       \E stale \in BOOLEAN :
          results = TensorWith(d, brillouin, rayleigh, stale)
    /\ session = [models |-> ModelNames, resolution |-> <<1, 1, 1>>,
                  nr_frames |-> 1, arc0 |-> TRUE, brillouin_regions |-> <<>>,
                  rayleigh_regions |-> <<>>]
    /\ evm_nr_brillouin_peaks = 1
    /\ evm_bounds_w0 = NoBounds
    /\ evm_bounds_fwhm = NoBounds
    /\ shared = FALSE
    /\ abort = None
    /\ count = None
    /\ max_count = None
    /\ pc = "Idle"
    /\ idx = 0
    /\ nr_brillouin_peaks = None
    /\ rayleigh_peak_initial = None
    /\ pool = "none"
    /\ trace = <<>>
    /\ max_count_writes = 0
    /\ derived_calls = 0
    /\ call = NoCall
    /\ ret = NoCall

DerivedPass ==
    /\ derived_calls < MaxDerivedPasses
    /\ results' = calculate_derived_values("evm" \in session.models, results)
    /\ derived_calls' = derived_calls + 1
    /\ UNCHANGED <<session, evm_nr_brillouin_peaks, evm_bounds_w0,
                   evm_bounds_fwhm, shared, abort, count, max_count, pc, idx,
                   nr_brillouin_peaks, rayleigh_peak_initial, pool, trace,
                   max_count_writes, call, ret>>

NextDerived == DerivedPass

SpecDerived == InitDerived /\ [][NextDerived]_vars


(***************************************************************************)
(* The two unpacking loops of a pass, one after the other, on a tensor     *)
(* whose cells all hold a value no fit returns.                            *)
(***************************************************************************)
SlotSessions ==
    {s \in Sessions : /\ s.models = ModelNames
                      /\ s.arc0
                      /\ s.nr_frames >= 1
                      /\ Len(s.brillouin_regions) >= 1
                      /\ s.resolution[2] = 1 /\ s.resolution[3] = 1}

InitSlots ==
    /\ session \in SlotSessions
    /\ evm_nr_brillouin_peaks \in 1..MaxBrillouinPeaks
    /\ nr_brillouin_peaks = evm_nr_brillouin_peaks
    /\ NrFits(session, evm_nr_brillouin_peaks) <= MaxFits
    /\ results =
          [k \in ResultKeys |->
             FilledArray(ShapeOf(k, Dims(session, session.nr_frames,
                                         evm_nr_brillouin_peaks)), 7)]
    /\ idx \in 0..(NrPoints(session.resolution) - 1)
    /\ pc = "Unpacking"
    /\ evm_bounds_w0 = NoBounds
    /\ evm_bounds_fwhm = NoBounds
    /\ shared = FALSE
    /\ abort = None
    /\ count = None
    /\ max_count = None
    /\ rayleigh_peak_initial = None
    /\ pool = "open"
    /\ trace = <<>>
    /\ max_count_writes = 0
    /\ derived_calls = 0
    /\ call = NoCall
    /\ ret = NoCall

\* "Unpack the results" of the single-peak fits
UnpackSingle ==
    /\ pc = "Unpacking"
    /\ \E fits \in SingleBatches :
          results' = WriteSingle(results, CurrentPoint, fits)
    /\ pc' = "SingleUnpacked"
    /\ UNCHANGED <<session, evm_nr_brillouin_peaks, evm_bounds_w0,
                   evm_bounds_fwhm, shared, abort, count, max_count, idx,
                   nr_brillouin_peaks, rayleigh_peak_initial, pool, trace,
                   max_count_writes, derived_calls, call, ret>>

\* "if nr_brillouin_peaks > 1": the multi-peak fits are unpacked
UnpackMulti ==
    /\ pc = "SingleUnpacked"
    /\ nr_brillouin_peaks > 1
    /\ \E multi \in MultiBatches(nr_brillouin_peaks) :
          results' = WriteMulti(results, CurrentPoint, multi,
                                nr_brillouin_peaks)
    /\ pc' = "MultiUnpacked"
    /\ UNCHANGED <<session, evm_nr_brillouin_peaks, evm_bounds_w0,
                   evm_bounds_fwhm, shared, abort, count, max_count, idx,
                   nr_brillouin_peaks, rayleigh_peak_initial, pool, trace,
                   max_count_writes, derived_calls, call, ret>>

NextSlots == UnpackSingle \/ UnpackMulti

SpecSlots == InitSlots /\ [][NextSlots]_vars


(***************************************************************************)
(* evaluate on sessions whose Rayleigh regions are two pixels wide, so     *)
(* that the Rayleigh peaks can move from one grid point to the next.       *)
(***************************************************************************)
WideRayleighRegions(n) == [k \in 1..n |-> <<25 * k - 20, 25 * k - 18>>]

DriftSessions ==
    {[s EXCEPT !.rayleigh_regions = WideRayleighRegions(Len(@))] :
        s \in {s \in Sessions : s.nr_frames <= 1 /\ s.resolution[1] > 1}}

InitDrift ==
    /\ session \in DriftSessions
    /\ evm_nr_brillouin_peaks \in 1..MaxBrillouinPeaks
    /\ NrFits(session, evm_nr_brillouin_peaks) <= MaxFits
    /\ evm_nr_brillouin_peaks > 1 =>
          NrPoints(session.resolution) <= MaxMultiPeakPoints
    /\ evm_bounds_w0 = NoBounds
    /\ evm_bounds_fwhm \in
          IF evm_nr_brillouin_peaks > 1 THEN BoundsSettings ELSE {NoBounds}
    /\ results = EmptyResults
    /\ shared \in BOOLEAN
    /\ ~shared => NrPoints(session.resolution) <= MaxUnsharedPoints
    /\ abort = IF shared THEN FALSE ELSE None
    /\ count = IF shared THEN 0 ELSE None
    /\ max_count = IF shared THEN 0 ELSE None
    /\ pc = "Idle"
    /\ idx = 0
    /\ nr_brillouin_peaks = None
    /\ rayleigh_peak_initial = None
    /\ pool = "none"
    /\ trace = <<>>
    /\ max_count_writes = 0
    /\ derived_calls = 0
    /\ call = NoCall
    /\ ret = NoCall

SpecDrift == InitDrift /\ [][Next]_vars


(***************************************************************************)
(* create_bounds as a function of the bounds setting, the Brillouin        *)
(* regions and the Rayleigh peak positions of one grid point.              *)
(***************************************************************************)
MaxBoundFrames == 2
MaxBoundRegions == 2

\* the limits a bound is written with: the four words, numbers of either
\* sign, a word float() rejects, and 'nan'
BoundTokens ==
    {TokenMin, TokenMax, <<"I", "n", "f">>, <<"-", "I", "n", "f">>,
     <<"2">>, <<"-", "3">>, <<"a", "b", "c">>, TokenNan}

BoundCallSettings ==
    {NoBounds}
    \cup {[is_none |-> FALSE, pairs |-> << <<lower, upper>> >>] :
            lower \in BoundTokens, upper \in BoundTokens}
    \cup {[is_none |-> FALSE,
           pairs |-> << <<TokenMin, TokenMax>>, <<<<"-", "3">>, <<"2">>>> >>]}

\* regions in MHz with lower edge first: below, above, across and from the
\* midpoint of the Rayleigh peaks on
BoundRegions ==
    {<<3000, 5000>>, <<11000, 13000>>, <<7000, 9000>>, <<8000, 9000>>}

BoundRegionLists ==
    UNION {[1..n -> BoundRegions] : n \in 1..MaxBoundRegions}

\* the positions a Rayleigh fit returns for a row, NaN for a failed fit
RayleighRowPositions(row) ==
    IF row = 0 THEN {NaN, 0, 1000} ELSE {NaN, 16000}

\* rayleigh_peaks of two regions, and of one and of three
RayleighPeakArrays ==
    UNION {
        {[shape |-> <<2, frames>>, data |-> data] :
            data \in {d \in [(0..1) \X (0..(frames - 1)) ->
                               {NaN, 0, 1000, 16000}] :
                        \A c \in DOMAIN d : d[c] \in RayleighRowPositions(c[1])}}
        \cup
        {[shape |-> <<rows, frames>>,
          data |-> [c \in (0..(rows - 1)) \X (0..(frames - 1)) |->
                      IF c[1] = 0 THEN 0 ELSE 16000]] : rows \in {1, 3}}
        : frames \in 1..MaxBoundFrames}

BoundCalls ==
    {[op |-> "create_bounds", brillouin_regions |-> brillouin_regions,
      rayleigh_peaks |-> rayleigh_peaks] :
        brillouin_regions \in BoundRegionLists,
        rayleigh_peaks \in RayleighPeakArrays}

InitBounds ==
    /\ session = [models |-> {}, resolution |-> <<1, 1, 1>>, nr_frames |-> 0,
                  arc0 |-> FALSE, brillouin_regions |-> <<>>,
                  rayleigh_regions |-> <<>>]
    /\ evm_nr_brillouin_peaks = 2
    /\ evm_bounds_w0 \in BoundCallSettings
    /\ evm_bounds_fwhm = NoBounds
    /\ results = EmptyResults
    /\ shared = FALSE
    /\ abort = None
    /\ count = None
    /\ max_count = None
    /\ pc = "Idle"
    /\ idx = 0
    /\ nr_brillouin_peaks = None
    /\ rayleigh_peak_initial = None
    /\ pool = "none"
    /\ trace = <<>>
    /\ max_count_writes = 0
    /\ derived_calls = 0
    /\ call \in BoundCalls
    /\ ret = NoCall

\* the call returns w0_bounds; limits keeps every local_limit as it was
\* before local_limit.sort()
CallCreateBounds ==
    /\ call.op = "create_bounds"
    /\ ret = NoCall
    /\ ret' = [op |-> "create_bounds",
               value |-> create_bounds(evm_bounds_w0, call.brillouin_regions,
                                       call.rayleigh_peaks),
               limits |-> IF create_bounds(evm_bounds_w0,
                                           call.brillouin_regions,
                                           call.rayleigh_peaks).is_none
                          THEN <<>>
                          ELSE local_limits(evm_bounds_w0,
                                            call.brillouin_regions,
                                            call.rayleigh_peaks)]
    /\ UNCHANGED <<call, evalVars>>

NextBounds == CallCreateBounds

SpecBounds == InitBounds /\ [][NextBounds]_vars


(***************************************************************************)
(* The calibration loop of Controller.evaluate: find_peaks, then calibrate,*)
(* for every calibration key; and find_peaks called on its own with a      *)
(* number of Brillouin samples.  Key k is the k-th of get_calib_keys().    *)
(* The averaged spectrum of a key is given by what scipy's find_peaks      *)
(* detects in it: the peak positions without a height floor, and those of  *)
(* them that lie under the floor.                                          *)
(***************************************************************************)
MaxCalibKeys == 2
MaxCalibFrames == 2
MaxSamples == 2
SpectrumLength == 64

PeakCandidates == {4, 12, 22, 30, 40, 52, 62}

\* heights under min_height + base
LowPeaks == {{}, {12, 52}}

\* 8 * properties['widths'][i], by peak position: narrow peaks, wide peaks,
\* and both
PeakWidths ==
    {[p \in PeakCandidates |-> 3], [p \in PeakCandidates |-> 20],
     [p \in PeakCandidates |-> IF p < 35 THEN 5 ELSE 20]}

\* the centres of mass a spectrum can have
CentersOfMass == {10, 30, 58}

NoSpectrum == [is_none |-> TRUE, peaks |-> {}, low |-> {}]

CalibSpectra ==
    {NoSpectrum}
    \cup {[is_none |-> FALSE, peaks |-> peaks, low |-> low \cap peaks] :
            peaks \in SUBSET PeakCandidates, low \in LowPeaks}

\* the spectra of the keys after the first: none, too few peaks, enough on
\* the retry, and more than enough
LaterCalibSpectra ==
    {NoSpectrum,
     [is_none |-> FALSE, peaks |-> {12, 30, 52}, low |-> {}],
     [is_none |-> FALSE, peaks |-> {4, 12, 22, 40, 52, 62}, low |-> {12, 52}],
     [is_none |-> FALSE, peaks |-> PeakCandidates, low |-> {}]}

\* the regions session.load() restored for a key: none, or two of each kind
LoadedRegions ==
    {[brillouin |-> <<>>, rayleigh |-> <<>>],
     [brillouin |-> <<<<10, 20>>, <<44, 54>>>>,
      rayleigh |-> <<<<1, 7>>, <<58, 63>>>>]}

\* the calibration model of a session with n keys
LoadedCalibrationModel(n, loaded) ==
    [brillouin_regions |-> [k \in 1..n |-> loaded.brillouin],
     rayleigh_regions |-> [k \in 1..n |-> loaded.rayleigh],
     brillouin_fits |-> [k \in 1..n |-> {}],
     rayleigh_fits |-> [k \in 1..n |-> {}],
     vipa_params |-> [k \in 1..n |-> [is_none |-> TRUE, list |-> <<>>]],
     frequencies |-> [k \in 1..n |-> [is_none |-> TRUE, list |-> <<>>]]]

CalibSessions ==
    {[models |-> ModelNames, resolution |-> <<1, 1, 1>>, nr_frames |-> 0,
      arc0 |-> FALSE, brillouin_regions |-> <<>>, rayleigh_regions |-> <<>>,
      calib_spectra |-> spectra, calib_frames |-> frames,
      cm |-> LoadedCalibrationModel(Len(spectra), loaded)] :
        spectra \in {<<first>> : first \in CalibSpectra}
                    \cup (IF MaxCalibKeys > 1
                          THEN {<<first, later>> :
                                  first \in CalibSpectra,
                                  later \in LaterCalibSpectra}
                          ELSE {}),
        frames \in 1..MaxCalibFrames,
        loaded \in LoadedRegions}

\* Controller.evaluate calls find_peaks(calib_key) with the default of two
\* Brillouin samples
PeakCalls ==
    {[op |-> "evaluate", num_brillouin_samples |-> 2]}
    \cup {[op |-> "find_peaks", num_brillouin_samples |-> n] :
            n \in 1..MaxSamples}

InitPeaks ==
    /\ session \in CalibSessions
    /\ call \in PeakCalls
    /\ call.op = "find_peaks" => Len(session.calib_spectra) = 1
    /\ evm_nr_brillouin_peaks = 1
    /\ evm_bounds_w0 = NoBounds
    /\ evm_bounds_fwhm = NoBounds
    /\ results = EmptyResults
    /\ shared = FALSE
    /\ abort = None
    /\ count = None
    /\ max_count = None
    /\ pc = "FindPeaks"
    /\ idx = 0
    /\ nr_brillouin_peaks = None
    /\ rayleigh_peak_initial = None
    /\ pool = "none"
    /\ trace = <<>>
    /\ max_count_writes = 0
    /\ derived_calls = 0
    /\ ret = NoCall

\* the elements of a set of integers in ascending order
RECURSIVE Ascending(_)
Ascending(S) ==
    IF S = {} THEN <<>>
    ELSE LET least == CHOOSE x \in S : \A y \in S : x <= y
         IN  <<least>> \o Ascending(S \ {least})

\* 2 Rayleigh + 2 times number calibration samples
NumPeaks(num_brillouin_samples) == 2 + 2 * num_brillouin_samples

\* peaks after the search with the height floor and, if that found too few,
\* the search without it
DetectedPeaks(spectrum, num_brillouin_samples) ==
    IF Cardinality(spectrum.peaks \ spectrum.low)
          < NumPeaks(num_brillouin_samples)
    THEN Ascending(spectrum.peaks)
    ELSE Ascending(spectrum.peaks \ spectrum.low)

\* a centre is a fraction num / den; np.mean of two peaks
MeanOfPeaks(a, b) == [num |-> a + b, den |-> 2]

\* len(peaks[peaks < center])
NumPeaksLeftStrict(peaks, center) ==
    Cardinality({i \in DOMAIN peaks : peaks[i] * center.den < center.num})

\* len(peaks[peaks <= center]) and len(peaks[peaks > center])
NumPeaksLeft(peaks, center) ==
    Cardinality({i \in DOMAIN peaks : peaks[i] * center.den <= center.num})
NumPeaksRight(peaks, center) ==
    Cardinality({i \in DOMAIN peaks : peaks[i] * center.den > center.num})

\* center: the middle of the two middle peaks when there are just enough
\* peaks, else the centre of mass, moved when one side has too few peaks
\* (peaks[i:j] of Python is peaks[i + 1 .. j] here)
Center(peaks, n, center_of_mass) ==
    IF Len(peaks) = NumPeaks(n)
    THEN MeanOfPeaks(peaks[NumPeaks(n) \div 2],
                     peaks[NumPeaks(n) \div 2 + 1])
    ELSE LET center == [num |-> center_of_mass, den |-> 1]
         IN  IF NumPeaksRight(peaks, center) < n + 1
             THEN MeanOfPeaks(peaks[Len(peaks) - (n + 2) + 1],
                              peaks[Len(peaks) - (n + 2) + 2])
             ELSE IF NumPeaksLeft(peaks, center) < n + 1
             THEN MeanOfPeaks(peaks[n + 1], peaks[n + 2])
             ELSE center

\* x / 2 cut to an integer as astype(int) does, towards zero
HalfTruncated(x) == IF x >= 0 THEN x \div 2 ELSE -((-x) \div 2)

\* r[r > len(spectrum)] = len(spectrum)
ClipToLength(v) == IF v > SpectrumLength THEN SpectrumLength ELSE v

\* peak_to_region(i), i counted from 0: peaks[i] -/+ 4 * widths[i]
peak_to_region(peaks, widths, i) ==
    <<ClipToLength(HalfTruncated(2 * peaks[i + 1] - widths[peaks[i + 1]])),
      ClipToLength(HalfTruncated(2 * peaks[i + 1] + widths[peaks[i + 1]]))>>

\* the merge keeping only the first sub-region of each side
MergeFirstOnly(regions, n) ==
    IF n > 1 THEN <<regions[1], regions[n + 1]>> ELSE regions

\* Merge the Brillouin regions if necessary
MergeRegions(regions, n) ==
    IF n > 1
    THEN <<<<regions[1][1], regions[n][2]>>,
           <<regions[n + 1][1], regions[Len(regions)][2]>>>>
    ELSE regions

\* the locals of find_peaks once enough peaks are detected
FindPeaksLocals(peaks, n, widths, center_of_mass) ==
    LET center == Center(peaks, n, center_of_mass)
        num_peaks_left == NumPeaksLeft(peaks, center)
        indices_brillouin ==
            [j \in 1..(2 * n) |-> num_peaks_left - n + j - 1]
        indices_rayleigh ==
            <<num_peaks_left - n - 1, num_peaks_left + n>>
    IN  [peaks |-> peaks,
         widths |-> widths,
         center |-> center,
         indices_brillouin |-> indices_brillouin,
         indices_rayleigh |-> indices_rayleigh,
         regions_brillouin |->
            MergeRegions([j \in 1..(2 * n) |->
                            peak_to_region(peaks, widths,
                                           indices_brillouin[j])], n),
         regions_rayleigh |->
            [j \in 1..2 |->
                peak_to_region(peaks, widths, indices_rayleigh[j])]]

\* cm.set_brillouin_region(calib_key, i, region) and
\* cm.set_rayleigh_region(calib_key, i, region): region i of the key is
\* replaced, or added when the key has no region i
set_region(regions, i, region) ==
    IF i < Len(regions) THEN [regions EXCEPT ![i + 1] = region]
    ELSE Append(regions, region)

RECURSIVE set_regions(_, _, _)
set_regions(regions, new, i) ==
    IF i >= Len(new) THEN regions
    ELSE set_regions(set_region(regions, i, new[i + 1]), new, i + 1)

CurrentCalibKey == idx + 1

AfterFindPeaks == IF call.op = "evaluate" THEN "Calibrate" ELSE "Done"

\* find_peaks: extract_spectra(calib_key) gives no spectra
FindPeaksNoSpectra ==
    /\ pc = "FindPeaks"
    /\ session.calib_spectra[CurrentCalibKey].is_none
    /\ trace' = Append(trace, "no_spectra")
    /\ pc' = AfterFindPeaks
    /\ UNCHANGED <<session, evm_nr_brillouin_peaks, evm_bounds_w0,
                   evm_bounds_fwhm, results, shared, abort, count, max_count,
                   idx, nr_brillouin_peaks, rayleigh_peak_initial, pool,
                   max_count_writes, derived_calls, call, ret>>

\* find_peaks: too few peaks with and without the height floor
FindPeaksTooFew ==
    /\ pc = "FindPeaks"
    /\ ~session.calib_spectra[CurrentCalibKey].is_none
    /\ Len(DetectedPeaks(session.calib_spectra[CurrentCalibKey],
                         call.num_brillouin_samples))
          < NumPeaks(call.num_brillouin_samples)
    /\ trace' = Append(trace, "too_few")
    /\ pc' = AfterFindPeaks
    /\ UNCHANGED <<session, evm_nr_brillouin_peaks, evm_bounds_w0,
                   evm_bounds_fwhm, results, shared, abort, count, max_count,
                   idx, nr_brillouin_peaks, rayleigh_peak_initial, pool,
                   max_count_writes, derived_calls, call, ret>>

\* find_peaks: the regions of the key are set; ret keeps the locals
FindPeaksSetRegions ==
    /\ pc = "FindPeaks"
    /\ ~session.calib_spectra[CurrentCalibKey].is_none
    /\ Len(DetectedPeaks(session.calib_spectra[CurrentCalibKey],
                         call.num_brillouin_samples))
          >= NumPeaks(call.num_brillouin_samples)
    /\ \E widths \in PeakWidths, center_of_mass \in CentersOfMass :
          LET locals ==
                FindPeaksLocals(
                    DetectedPeaks(session.calib_spectra[CurrentCalibKey],
                                  call.num_brillouin_samples),
                    call.num_brillouin_samples, widths, center_of_mass)
          IN  /\ ret' = [op |-> "find_peaks", calib_key |-> CurrentCalibKey,
                         locals |-> locals]
              /\ session' =
                   [session EXCEPT
                      !.cm.brillouin_regions[CurrentCalibKey] =
                          set_regions(@, locals.regions_brillouin, 0),
                      !.cm.rayleigh_regions[CurrentCalibKey] =
                          set_regions(@, locals.regions_rayleigh, 0)]
    /\ trace' = Append(trace, "regions")
    /\ pc' = AfterFindPeaks
    /\ UNCHANGED <<evm_nr_brillouin_peaks, evm_bounds_w0, evm_bounds_fwhm,
                   results, shared, abort, count, max_count, idx,
                   nr_brillouin_peaks, rayleigh_peak_initial, pool,
                   max_count_writes, derived_calls, call>>

AfterCalibrate ==
    IF idx + 1 < Len(session.calib_spectra) THEN "FindPeaks" ELSE "Done"

\* calibrate: no spectra for the key, return (max_count is None)
CalibrateNoSpectra ==
    /\ pc = "Calibrate"
    /\ session.calib_spectra[CurrentCalibKey].is_none
    /\ trace' = Append(trace, "calibrate_returned")
    /\ idx' = idx + 1
    /\ pc' = AfterCalibrate
    /\ UNCHANGED <<session, evm_nr_brillouin_peaks, evm_bounds_w0,
                   evm_bounds_fwhm, results, shared, abort, count, max_count,
                   nr_brillouin_peaks, rayleigh_peak_initial, pool,
                   max_count_writes, derived_calls, call, ret>>

\* calibrate: the regions the key has are fitted in every frame, fit_vipa
\* is tried for every frame (it can only succeed on fitted peaks), and the
\* VIPA parameters and frequency axes of the frames it succeeded for are
\* stored; a fit is (region_key, frame_num), a parameter set is frame_num
Calibrate ==
    /\ pc = "Calibrate"
    /\ ~session.calib_spectra[CurrentCalibKey].is_none
    /\ LET frames == 0..(session.calib_frames - 1)
           fits(regions) == (0..(Len(regions) - 1)) \X frames
           rayleigh ==
               fits(session.cm.rayleigh_regions[CurrentCalibKey])
           brillouin ==
               fits(session.cm.brillouin_regions[CurrentCalibKey])
       IN  \E fitted \in SUBSET frames :
              /\ (rayleigh \cup brillouin = {}) => fitted = {}
              /\ session' =
                   [session EXCEPT
                      !.cm.rayleigh_fits[CurrentCalibKey] = rayleigh,
                      !.cm.brillouin_fits[CurrentCalibKey] = brillouin,
                      !.cm.vipa_params[CurrentCalibKey] =
                          [is_none |-> FALSE, list |-> Ascending(fitted)],
                      !.cm.frequencies[CurrentCalibKey] =
                          [is_none |-> FALSE, list |-> Ascending(fitted)]]
    /\ results' = EmptyResults
    /\ trace' = Append(trace, "calibrated")
    /\ idx' = idx + 1
    /\ pc' = AfterCalibrate
    /\ UNCHANGED <<evm_nr_brillouin_peaks, evm_bounds_w0, evm_bounds_fwhm,
                   shared, abort, count, max_count, nr_brillouin_peaks,
                   rayleigh_peak_initial, pool, max_count_writes,
                   derived_calls, call, ret>>

NextPeaks ==
    \/ FindPeaksNoSpectra
    \/ FindPeaksTooFew
    \/ FindPeaksSetRegions
    \/ CalibrateNoSpectra
    \/ Calibrate

SpecPeaks == InitPeaks /\ [][NextPeaks]_vars


(***************************************************************************)
(* Properties.                                                             *)
(***************************************************************************)
\* (x, y, z) is a grid point of a three-axis resolution with every axis >= 1
ValidIndices(resolution, ind) ==
    /\ Len(resolution) = 3
    /\ Len(ind) = 3
    /\ \A k \in 1..3 : resolution[k] >= 1 /\ 0 <= ind[k] /\ ind[k] < resolution[k]

\* C1: for every resolution with all axes >= 1 and every grid point
\* (x, y, z) of it, get_key_from_indices returns the decimal string of
\* z*(dim_x*dim_y) + y*dim_x + x, and get_indices_from_key applied to that
\* key returns exactly (x, y, z).
C1_RoundTrip ==
    /\ (/\ call.op = "get_key_from_indices"
        /\ ret # NoCall
        /\ ValidIndices(call.resolution, call.ind))
       => /\ ret.raised = None
          /\ ParseInt(ret.value) =
                call.ind[3] * (call.resolution[1] * call.resolution[2])
                + call.ind[2] * call.resolution[1] + call.ind[1]
    /\ (/\ call.op = "get_indices_from_key"
        /\ ValidIndices(call.resolution, call.ind))
       => /\ ret.raised = None
          /\ ret.value = call.ind

\* a two-digit key decoded back to the grid point it was made from
C1_Witness ==
    /\ call.op = "get_indices_from_key"
    /\ call.resolution = <<2, 3, 2>>
    /\ call.ind = <<1, 2, 1>>
    /\ call.key = <<"1", "1">>
    /\ ret.raised = None
    /\ ret.value = <<1, 2, 1>>

\* C2: get_key_from_indices raises, and returns no key, whenever the
\* resolution does not have exactly three entries or ind_x >= resolution[0]
\* or ind_y >= resolution[1] or ind_z >= resolution[2].
C2_RaisesOutOfRange ==
    (/\ call.op = "get_key_from_indices"
     /\ ret # NoCall
     /\ \/ Len(call.resolution) # 3
        \/ call.ind[1] >= call.resolution[1]
        \/ call.ind[2] >= call.resolution[2]
        \/ call.ind[3] >= call.resolution[3])
    => /\ ret.raised \in {"ValueError", "IndexError"}
       /\ ret.value = None

\* an index equal to its axis bound is refused
C2_Witness ==
    /\ call.op = "get_key_from_indices"
    /\ call.resolution = <<2, 2, 1>>
    /\ call.ind = <<0, 2, 0>>
    /\ ret # NoCall
    /\ ret.raised = "IndexError"


\* the grid points of a resolution, and the integer of a point's key
GridPoints(resolution) ==
    {<<x, y, z>> : x \in 0..(resolution[1] - 1),
                   y \in 0..(resolution[2] - 1),
                   z \in 0..(resolution[3] - 1)}
LinearKey(resolution, p) ==
    p[3] * (resolution[1] * resolution[2]) + p[2] * resolution[1] + p[1]

\* every cell of every result array at grid point p is NaN
AllFieldsNaNAt(res, p) ==
    \A k \in ResultKeys :
    \A t \in DOMAIN res[k].data :
        (t[1] = p[1] /\ t[2] = p[2] /\ t[3] = p[3]) => IsNaN(res[k].data[t])

\* the number of grid points of the evaluated repetition
TotalPoints ==
    session.resolution[1] * session.resolution[2] * session.resolution[3]

\* a step of evaluate's loop: one more grid point visited
LoopPass == Len(trace') = Len(trace) + 1

C3_AbortStep ==
    (pc = "Running" /\ shared /\ abort /\ LoopPass)
    => /\ pc' = "Aborted"
       /\ max_count' = -1
       /\ idx' = idx
       /\ derived_calls' = derived_calls + 1
       /\ results' = calculate_derived_values(TRUE, results)
       /\ \A k \in ResultKeys \ {"brillouin_shift_f"} :
             results'[k] = results[k]

C3_AbortedState ==
    pc = "Aborted"
    => /\ max_count = -1
       /\ \A p \in GridPoints(session.resolution) :
             LinearKey(session.resolution, p) >= idx
                => AllFieldsNaNAt(results, p)

C4_PoolClosedOnReturn ==
    pc \in {"Completed", "Aborted"} => pool = "closed"

C5_FailStep ==
    (/\ pc = "Idle"
     /\ pc' # "Idle"
     /\ \/ session.models # ModelNames
        \/ ~session.arc0
        \/ session.nr_frames = 0)
    => /\ pc' = "Failed"
       /\ shared => max_count' = -1
       /\ results' = results
       /\ pool' = "none"
       /\ count' = count
       /\ idx' = idx
       /\ trace' = <<>>
       /\ derived_calls' = 0

C5_FailedState ==
    pc = "Failed"
    => /\ shared => max_count = -1
       /\ pool = "none"
       /\ trace = <<>>
       /\ shared => count = 0

\* C5: when a required model is missing, or the probe of key '0' gives no
\* spectra, evaluate returns before the loop with the total-units counter
\* at -1, the result tensor as it was and no pool created.
C5_InitFailure == [](C5_FailedState) /\ [][C5_FailStep]_vars

\* the probe fails and the results of an earlier evaluation stay
C5_Witness ==
    /\ pc = "Failed"
    /\ shared
    /\ max_count = -1
    /\ session.models = ModelNames
    /\ ~session.arc0
    /\ results = EarlierResults(session)
    /\ pool = "none"

\* C6 (as stated): the total-units counter is -1 only when initialization
\* failed; in every run that passes initialization it is written once, to
\* the number of grid points, and keeps that value until evaluate returns.
C6_Original ==
    shared
    => /\ max_count = -1 => pc = "Failed"
       /\ pc \in {"Running", "Completed", "Aborted", "Raised"}
             => max_count = TotalPoints /\ max_count_writes = 1

\* C6 (amended): the total-units counter is -1 only when initialization
\* failed or a set abort flag was honoured; a run that passes initialization
\* writes it once, to the number of grid points, before the loop, and it
\* keeps that value unless the abort branch overwrites it once with -1.
C6_Amended ==
    shared
    => /\ max_count = -1 => pc \in {"Failed", "Aborted"}
       /\ pc = "Failed" => max_count = -1
       /\ pc \in {"Running", "Completed", "Raised"}
             => max_count = TotalPoints /\ max_count_writes = 1
       /\ pc = "Aborted" => max_count = -1 /\ max_count_writes = 2

\* a run that passed initialization and was then cancelled
C6_Witness ==
    /\ shared
    /\ pc = "Aborted"
    /\ idx >= 1
    /\ max_count = -1
    /\ max_count_writes = 2

C7_CountState ==
    shared
    => /\ count \in 0..TotalPoints
       /\ count = Len(trace)
       /\ pc = "Completed" => count = TotalPoints

C7_CountStep ==
    shared
    => /\ count' >= count
       /\ LoopPass => count' = count + 1
       /\ ~LoopPass => count' = count

\* C7: the completed-units counter never decreases, grows by exactly one
\* for every grid point the loop visits, skipped points included, and
\* equals the number of grid points after a run that was not cancelled.
C7_CompletedCounter == [](C7_CountState) /\ [][C7_CountStep]_vars

\* a completed 4-point run with skipped and fitted points
C7_Witness ==
    /\ shared
    /\ pc = "Completed"
    /\ count = 4
    /\ trace = <<"fit", "no_spectra", "no_frequencies", "fit">>

\* C8 (as stated): evaluate never raises; it ends Completed or Aborted (or
\* returns from a failed initialization).
C8_NeverRaises ==
    pc \in {"Idle", "Running", "Failed", "Completed", "Aborted"}

C9_SkipStep ==
    (LoopPass /\ trace'[Len(trace')] = "no_spectra")
    => /\ results' = results
       /\ rayleigh_peak_initial' = rayleigh_peak_initial
       /\ pc' = "Running"
       /\ idx' = idx + 1

C9_SkippedState ==
    \A i \in 1..Len(trace) :
        trace[i] = "no_spectra"
        => \A p \in GridPoints(session.resolution) :
              LinearKey(session.resolution, p) = i - 1
                 => AllFieldsNaNAt(results, p)

Distance(a, b) == IF a >= b THEN a - b ELSE b - a

\* the distances of Brillouin cell t to the Rayleigh positions of the same
\* point and frame, the missing ones left out
Distances(res, t) ==
    LET b == res["brillouin_peak_position_f"].data[t]
        r == res["rayleigh_peak_position_f"].data
    IN  IF IsNaN(b) THEN {}
        ELSE {Distance(b, r[c]) :
                c \in {c \in DOMAIN r :
                         /\ c[1] = t[1] /\ c[2] = t[2]
                         /\ c[3] = t[3] /\ c[4] = t[4]
                         /\ ~IsNaN(r[c])}}

\* C10: after the derived-value pass the brillouin_shift_f of every
\* Brillouin cell (x, y, z, frame, region, peak) is the minimum, over the
\* Rayleigh regions at the same (x, y, z, frame), of the non-missing
\* |brillouin position - rayleigh position|, and is NaN exactly when every
\* such distance is missing.
C10_DerivedShift ==
    derived_calls >= 1
    => LET shift == results["brillouin_shift_f"]
       IN  /\ shift.shape = results["brillouin_peak_position_f"].shape
           /\ DOMAIN shift.data =
                 DOMAIN results["brillouin_peak_position_f"].data
           /\ \A t \in DOMAIN shift.data :
                 LET D == Distances(results, t)
                 IN  IF D = {} THEN IsNaN(shift.data[t])
                     ELSE /\ shift.data[t] \in D
                          /\ \A d \in D : shift.data[t] <= d

\* Brillouin positions 10 and 20 with Rayleigh positions 5 and 30
C10_Witness ==
    /\ derived_calls = 1
    /\ results["brillouin_peak_position_f"].shape = <<1, 1, 1, 1, 2, 1>>
    /\ results["rayleigh_peak_position_f"].shape = <<1, 1, 1, 1, 2, 1>>
    /\ results["brillouin_peak_position_f"].data[<<0, 0, 0, 0, 0, 0>>] = 10
    /\ results["brillouin_peak_position_f"].data[<<0, 0, 0, 0, 1, 0>>] = 20
    /\ results["rayleigh_peak_position_f"].data[<<0, 0, 0, 0, 0, 0>>] = 5
    /\ results["rayleigh_peak_position_f"].data[<<0, 0, 0, 0, 1, 0>>] = 30
    /\ results["brillouin_shift_f"].data[<<0, 0, 0, 0, 0, 0>>] = 5
    /\ results["brillouin_shift_f"].data[<<0, 0, 0, 0, 1, 0>>] = 10


\* a step that is one run of calculate_derived_values and nothing else
DerivedRun == derived_calls' = derived_calls + 1

C11_RunStep ==
    DerivedRun
    => /\ \A k \in ResultKeys \ {"brillouin_shift_f"} :
             results'[k] = results[k]
       /\ derived_calls >= 1 => results' = results

\* C11: a second run of calculate_derived_values on the same tensor, with
\* no write in between, leaves brillouin_shift_f as the first run made it,
\* and no run changes any array other than brillouin_shift_f.
C11_Idempotent == [][C11_RunStep]_vars

\* two runs, the first of which replaced stale shifts by 5 and 10
C11_Witness ==
    /\ derived_calls = 2
    /\ results["brillouin_peak_position_f"].shape = <<1, 1, 1, 1, 2, 1>>
    /\ results["rayleigh_peak_position_f"].shape = <<1, 1, 1, 1, 2, 1>>
    /\ results["rayleigh_peak_position_f"].data[<<0, 0, 0, 0, 0, 0>>] = 5
    /\ results["rayleigh_peak_position_f"].data[<<0, 0, 0, 0, 1, 0>>] = 30
    /\ results["brillouin_shift_f"].data[<<0, 0, 0, 0, 0, 0>>] = 5
    /\ results["brillouin_shift_f"].data[<<0, 0, 0, 0, 1, 0>>] = 10


\* the cells of Brillouin field k that a step changes
ChangedCells(k) ==
    {t \in DOMAIN results[k].data : results'[k].data[t] # results[k].data[t]}

\* the cells of Brillouin field k at the current point with a peak slot in S
PointSlots(k, S) ==
    {t \in DOMAIN results[k].data :
        /\ t[1] = CurrentPoint[1] /\ t[2] = CurrentPoint[2]
        /\ t[3] = CurrentPoint[3] /\ t[6] \in S}

C12_UnpackStep ==
    /\ (pc = "Unpacking" /\ pc' = "SingleUnpacked")
       => \A k \in FitKeysBrillouin : ChangedCells(k) = PointSlots(k, {0})
    /\ (pc = "SingleUnpacked" /\ pc' = "MultiUnpacked")
       => \A k \in FitKeysBrillouin :
             /\ ChangedCells(k) = PointSlots(k, 1..nr_brillouin_peaks)
             /\ \A t \in PointSlots(k, {0}) :
                   results'[k].data[t] = results[k].data[t]

C12_SlotsState ==
    (pc # "Unpacking" /\ nr_brillouin_peaks = 1)
    => /\ pc = "SingleUnpacked"
       /\ \A k \in FitKeysBrillouin :
          \A t \in DOMAIN results[k].data : results[k].data[t] # 7 => t[6] = 0

\* C12: the single-peak fit is written only at peak-axis index 0 and the
\* multi-peak fit only at indices 1..nr_brillouin_peaks; the multi-peak
\* pass leaves index 0 of every Brillouin field as it was, and with a peak
\* count of 1 no index other than 0 is written.
C12_PeakSlots == [](C12_SlotsState) /\ [][C12_UnpackStep]_vars

\* two peaks: slot 0 holds the single-peak fit, slots 1 and 2 the two peaks
C12_Witness ==
    /\ pc = "MultiUnpacked"
    /\ nr_brillouin_peaks = 2
    /\ session.resolution = <<2, 1, 1>>
    /\ idx = 0
    /\ results["brillouin_peak_position_f"].data[<<0, 0, 0, 0, 0, 0>>] = 10
    /\ results["brillouin_peak_position_f"].data[<<0, 0, 0, 0, 0, 1>>] = 10
    /\ results["brillouin_peak_position_f"].data[<<0, 0, 0, 0, 0, 2>>] = 11
    /\ results["brillouin_peak_position_f"].data[<<1, 0, 0, 0, 0, 0>>] = 7


\* the shape the dims of a run give to result array k
ExpectedShape(k) ==
    <<session.resolution[1], session.resolution[2], session.resolution[3],
      session.nr_frames,
      IF k \in {"time", "intensity"} THEN 1
      ELSE IF k \in BrillouinKeys THEN Len(session.brillouin_regions)
      ELSE Len(session.rayleigh_regions),
      IF k \in BrillouinKeys
      THEN IF evm_nr_brillouin_peaks > 1 THEN evm_nr_brillouin_peaks + 1
           ELSE evm_nr_brillouin_peaks
      ELSE 1>>

\* the index tuples of an array of the given six-axis shape
CellsOfShape(shape) ==
    {<<x, y, z, f, r, q>> :
        x \in 0..(shape[1] - 1), y \in 0..(shape[2] - 1),
        z \in 0..(shape[3] - 1), f \in 0..(shape[4] - 1),
        r \in 0..(shape[5] - 1), q \in 0..(shape[6] - 1)}

C13_Step ==
    /\ (pc = "Idle" /\ pc' = "Running")
       => \A k \in ResultKeys :
             /\ results'[k].shape = ExpectedShape(k)
             /\ DOMAIN results'[k].data = CellsOfShape(ExpectedShape(k))
             /\ \A t \in DOMAIN results'[k].data : IsNaN(results'[k].data[t])
    /\ pc = "Running"
       => \A k \in ResultKeys :
             /\ results'[k].shape = results[k].shape
             /\ DOMAIN results'[k].data = DOMAIN results[k].data

C13_ShapeState ==
    pc \in {"Running", "Completed", "Aborted", "Raised"}
    => \A k \in ResultKeys : results[k].shape = ExpectedShape(k)

RayleighCells ==
    {<<f, r, 0>> : f \in 0..(session.nr_frames - 1),
                   r \in 0..(Len(session.rayleigh_regions) - 1)}

\* the grid point of the i-th loop pass
PointOfPass(i) ==
    <<(i - 1) % session.resolution[1],
      ((i - 1) \div session.resolution[1]) % session.resolution[2],
      (i - 1) \div (session.resolution[1] * session.resolution[2])>>

\* array k at the point of pass i, cell c of RayleighCells
RayleighValue(k, i, c) ==
    LET p == PointOfPass(i)
    IN  results[k].data[<<p[1], p[2], p[3], c[1], c[2], c[3]>>]

\* the passes that reached the Rayleigh-shift write
ProcessedPasses == {i \in 1..Len(trace) : trace[i] \in {"fit", "fit_multi"}}

\* the processed passes whose Rayleigh positions are not all missing
ValidPasses ==
    {i \in ProcessedPasses :
        \E c \in RayleighCells :
            ~IsNaN(RayleighValue("rayleigh_peak_position_f", i, c))}

FirstValidPass == CHOOSE i \in ValidPasses : \A j \in ValidPasses : i <= j

\* a - b on floats
FloatDifference(a, b) == IF IsNaN(a) \/ IsNaN(b) THEN NaN ELSE a - b

InRun == pc \in {"Running", "Completed", "Aborted", "Raised"}

C14_ReferenceState ==
    InRun
    => /\ DOMAIN rayleigh_peak_initial = RayleighCells
       /\ LET valid == ValidPasses
          IN  IF valid = {}
              THEN \A c \in RayleighCells : IsNaN(rayleigh_peak_initial[c])
              ELSE LET first == CHOOSE i \in valid : \A j \in valid : i <= j
                   IN  \A c \in RayleighCells :
                          rayleigh_peak_initial[c] =
                             RayleighValue("rayleigh_peak_position_f",
                                           first, c)
       /\ \A i \in ProcessedPasses : \A c \in RayleighCells :
             RayleighValue("rayleigh_shift", i, c) =
                FloatDifference(
                    RayleighValue("rayleigh_peak_position_f", i, c),
                    rayleigh_peak_initial[c])

C14_ReferenceStep ==
    /\ (pc = "Idle" /\ pc' = "Running")
       => \A c \in DOMAIN rayleigh_peak_initial' :
             IsNaN(rayleigh_peak_initial'[c])
    /\ (pc = "Running"
        /\ \E c \in DOMAIN rayleigh_peak_initial :
              ~IsNaN(rayleigh_peak_initial[c]))
       => rayleigh_peak_initial' = rayleigh_peak_initial

\* C14 (as stated): the reference is captured once from the first processed
\* point whose Rayleigh positions are not all missing and never changes;
\* the stored rayleigh_shift of every processed point is positions minus
\* reference, so it is 0 at the reference point; a new run starts with an
\* empty reference.
C14_Original ==
    /\ C14_ReferenceState
    /\ (InRun /\ ValidPasses # {})
       => LET first == FirstValidPass
          IN  \A c \in RayleighCells :
                 RayleighValue("rayleigh_shift", first, c) = 0

\* C14 (amended): as stated, except that at the reference point the
\* rayleigh_shift is 0 only in the cells whose Rayleigh position was found
\* there; a cell missing in the reference is NaN at the reference point
\* and at every later point.
C14_Amended ==
    /\ [](C14_ReferenceState)
    /\ [](InRun => LET valid == ValidPasses
                    IN  \A i \in valid : \A c \in RayleighCells :
            /\ ((\A j \in valid : i <= j) /\ ~IsNaN(rayleigh_peak_initial[c]))
               => RayleighValue("rayleigh_shift", i, c) = 0
            /\ IsNaN(rayleigh_peak_initial[c])
               => IsNaN(RayleighValue("rayleigh_shift", i, c)))
    /\ [][C14_ReferenceStep]_vars

\* a reference (5, missing) taken at the first point; at the second point
\* the peaks are at 6 and 31: the shift is 1 in one region, NaN in the other
C14_Witness ==
    /\ pc = "Running"
    /\ session.resolution = <<2, 1, 1>>
    /\ session.nr_frames = 1
    /\ Len(session.rayleigh_regions) = 2
    /\ trace = <<"fit", "fit">>
    /\ rayleigh_peak_initial[<<0, 0, 0>>] = 5
    /\ IsNaN(rayleigh_peak_initial[<<0, 1, 0>>])
    /\ results["rayleigh_peak_position_f"].data[<<1, 0, 0, 0, 1, 0>>] = 31
    /\ results["rayleigh_shift"].data[<<0, 0, 0, 0, 0, 0>>] = 0
    /\ IsNaN(results["rayleigh_shift"].data[<<0, 0, 0, 0, 1, 0>>])
    /\ results["rayleigh_shift"].data[<<1, 0, 0, 0, 0, 0>>] = 1
    /\ IsNaN(results["rayleigh_shift"].data[<<1, 0, 0, 0, 1, 0>>])

\* C15 (as stated): in a run with nr_brillouin_peaks > 1 and a number of
\* Rayleigh regions other than two, create_bounds and create_bounds_fwhm both
\* return None and no pass of the loop raises, whatever the two bounds
\* settings are.
C15_DegradesToDefaults ==
    (InRun /\ nr_brillouin_peaks > 1 /\ NrRayleigh # 2)
    => /\ create_bounds_is_none(evm_bounds_w0, NrRayleigh)
       /\ create_bounds_fwhm_is_none(evm_bounds_fwhm)
       /\ pc # "Raised"

\* create_bounds has returned a list
BoundsReturned == ret.op = "create_bounds" /\ ~ret.value.is_none

\* both edges of the region are below, or both are at or above, the mean of
\* the Rayleigh positions of the frame that are not NaN (the midpoint, when
\* both are there)
OnStokesSide(region, limit) ==
    /\ limit.n > 0
    /\ region[1] * limit.n < limit.sum
    /\ region[2] * limit.n < limit.sum
OnAntiStokesSide(region, limit) ==
    /\ limit.n > 0
    /\ region[1] * limit.n >= limit.sum
    /\ region[2] * limit.n >= limit.sum

\* C16: in every list create_bounds returns, for a region (lower edge first)
\* on the Stokes side 'min' is translated to the region's lower edge and
\* 'max' to its upper edge, and for a region on the anti-Stokes side 'min' to
\* the upper edge and 'max' to the lower edge, whatever the other limit of
\* the bound is.
C16_MinMaxEdges ==
    BoundsReturned
    => \A r \in DOMAIN ret.limits : \A f \in DOMAIN ret.limits[r] :
       \A b \in DOMAIN ret.limits[r][f] :
       \A i \in DOMAIN ret.limits[r][f][b] :
          LET region == call.brillouin_regions[r]
              limit == anti_stokes_limit(call.rayleigh_peaks, f - 1)
              token == Lower(evm_bounds_w0.pairs[b][i])
              val == ret.limits[r][f][b][i]
          IN  /\ (OnStokesSide(region, limit) /\ token = TokenMin)
                 => val = region[1]
              /\ (OnStokesSide(region, limit) /\ token = TokenMax)
                 => val = region[2]
              /\ (OnAntiStokesSide(region, limit) /\ token = TokenMin)
                 => val = region[2]
              /\ (OnAntiStokesSide(region, limit) /\ token = TokenMax)
                 => val = region[1]

\* a region below the midpoint with the bound ('-3', 'max'): 'max' is the
\* upper edge although the number is negative
C16_Witness ==
    /\ BoundsReturned
    /\ evm_bounds_w0.pairs = << <<<<"-", "3">>, TokenMax>> >>
    /\ call.brillouin_regions = << <<3000, 5000>> >>
    /\ call.rayleigh_peaks.shape = <<2, 1>>
    /\ call.rayleigh_peaks.data[<<0, 0>>] = 0
    /\ call.rayleigh_peaks.data[<<1, 0>>] = 16000
    /\ ret.limits[1][1][1][2] = 5000

\* a <= b on floats: False when either is NaN
FloatLessEqual(a, b) == a # NaN /\ b # NaN /\ a <= b

\* C17 (as stated): the list create_bounds returns has one pair for every
\* region, frame and configured bound, and every pair (lower, upper) in it
\* satisfies lower <= upper.
C17_PairsOrdered ==
    BoundsReturned
    => /\ DOMAIN ret.value.w0_bounds = DOMAIN call.brillouin_regions
       /\ \A r \in DOMAIN ret.value.w0_bounds :
          /\ DOMAIN ret.value.w0_bounds[r]
                = 1..call.rayleigh_peaks.shape[2]
          /\ \A f \in DOMAIN ret.value.w0_bounds[r] :
             /\ DOMAIN ret.value.w0_bounds[r][f] = DOMAIN evm_bounds_w0.pairs
             /\ \A b \in DOMAIN ret.value.w0_bounds[r][f] :
                /\ Len(ret.value.w0_bounds[r][f][b]) = 2
                /\ FloatLessEqual(ret.value.w0_bounds[r][f][b][1],
                                  ret.value.w0_bounds[r][f][b][2])

\* the limit is a number: float() accepts it and the value is finite
IsNumericLimit(limit) ==
    PyFloat(limit).raised = None /\ IsFinite(PyFloat(limit).value)

\* the side create_bounds takes bound b of region r to be on in frame f
\* (frames counted from 0)
BoundIsAntiStokes(r, f, b) ==
    is_anti_stokes(call.brillouin_regions[r],
                   anti_stokes_limit(call.rayleigh_peaks, f),
                   evm_bounds_w0.pairs[b])

\* the Rayleigh position of that side in frame f
ReferencePosition(r, f, b) ==
    call.rayleigh_peaks.data[<<IF BoundIsAntiStokes(r, f, b) THEN 1 ELSE 0,
                               f>>]

\* 'Inf' is +infinity and '-Inf' -infinity on the Stokes side, and the
\* reverse on the anti-Stokes side
InfinityLimits(r, f, b, i) ==
    LET token == Lower(evm_bounds_w0.pairs[b][i])
        val == ret.limits[r][f + 1][b][i]
    IN  /\ token = TokenInf
           => val = (IF BoundIsAntiStokes(r, f, b) THEN -Infinity
                     ELSE Infinity)
        /\ token = TokenNegInf
           => val = (IF BoundIsAntiStokes(r, f, b) THEN Infinity
                     ELSE -Infinity)

\* C18 (as stated): in every list create_bounds returns a numeric limit v is
\* translated to polarity * v * 1e9 + reference position, with polarity +1
\* on the Stokes and -1 on the anti-Stokes side and the reference the
\* Rayleigh position of that side in the same frame; 'Inf' and '-Inf' are
\* +infinity and -infinity on the Stokes side and the reverse on the other.
C18_Original ==
    BoundsReturned
    => \A r \in DOMAIN ret.limits : \A f \in DOMAIN ret.limits[r] :
       \A b \in DOMAIN ret.limits[r][f] :
       \A i \in DOMAIN ret.limits[r][f][b] :
          /\ IsNumericLimit(evm_bounds_w0.pairs[b][i])
             => ret.limits[r][f][b][i]
                  = FloatAdd(Polarity(BoundIsAntiStokes(r, f - 1, b)) * GHz
                                * PyFloat(evm_bounds_w0.pairs[b][i]).value,
                             ReferencePosition(r, f - 1, b))
          /\ InfinityLimits(r, f - 1, b, i)

\* C18 (amended): a numeric limit v is translated to
\* polarity * abs(v) * 1e9 + reference position; the rest as stated.
C18_Amended ==
    BoundsReturned
    => \A r \in DOMAIN ret.limits : \A f \in DOMAIN ret.limits[r] :
       \A b \in DOMAIN ret.limits[r][f] :
       \A i \in DOMAIN ret.limits[r][f][b] :
          /\ IsNumericLimit(evm_bounds_w0.pairs[b][i])
             => ret.limits[r][f][b][i]
                  = FloatAdd(Polarity(BoundIsAntiStokes(r, f - 1, b)) * GHz
                                * FloatAbs(
                                    PyFloat(evm_bounds_w0.pairs[b][i]).value),
                             ReferencePosition(r, f - 1, b))
          /\ InfinityLimits(r, f - 1, b, i)

\* the bound ('-3', '2') on a region across the midpoint: the anti-Stokes
\* side, measured down from the upper Rayleigh position
C18_Witness ==
    /\ BoundsReturned
    /\ evm_bounds_w0.pairs = << <<<<"-", "3">>, <<"2">>>> >>
    /\ call.brillouin_regions = << <<7000, 9000>> >>
    /\ call.rayleigh_peaks.shape = <<2, 1>>
    /\ call.rayleigh_peaks.data[<<0, 0>>] = 0
    /\ call.rayleigh_peaks.data[<<1, 0>>] = 16000
    /\ ret.limits[1][1][1] = <<13000, 14000>>

\* C19 (as stated): in the calibration loop of Controller.evaluate, for a
\* key whose find_peaks found too few peaks with and without the height
\* floor, calibration is skipped: no Rayleigh or Brillouin fit, no VIPA
\* parameters and no frequency axis are computed for it.
C19_FailedKeySkipped ==
    call.op = "evaluate"
    => \A k \in DOMAIN session.calib_spectra :
          (Len(trace) >= 2 * k /\ trace[2 * k - 1] = "too_few")
          => /\ session.cm.rayleigh_fits[k] = {}
             /\ session.cm.brillouin_fits[k] = {}
             /\ session.cm.vipa_params[k].list = <<>>
             /\ session.cm.frequencies[k].list = <<>>

\* the interval (start, end) contains the pixel index p
Contains(region, p) == region[1] <= p /\ p <= region[2]

\* C20: when find_peaks detects exactly 2 + 2 * n peaks (n the number of
\* Brillouin samples), the centre is the mean of the two middle peaks, the
\* 2 * n inner peaks are the Brillouin peaks and the first and the last the
\* Rayleigh peaks, the key then has exactly 2 Rayleigh and 2 Brillouin
\* regions, the left Brillouin region runs from the start of the region of
\* the first left peak to the end of the region of the last left peak and
\* the right one likewise, and every region contains each of its peaks.
C20_ExactPeakCount ==
    (ret.op = "find_peaks"
       /\ Len(ret.locals.peaks) = NumPeaks(call.num_brillouin_samples))
    => LET n == call.num_brillouin_samples
           peaks == ret.locals.peaks
           widths == ret.locals.widths
           brillouin == session.cm.brillouin_regions[ret.calib_key]
           rayleigh == session.cm.rayleigh_regions[ret.calib_key]
       IN  /\ 2 * ret.locals.center.num
                 = ret.locals.center.den * (peaks[n + 1] + peaks[n + 2])
           /\ ret.locals.indices_brillouin = [j \in 1..(2 * n) |-> j]
           /\ ret.locals.indices_rayleigh = <<0, 2 * n + 1>>
           /\ Len(rayleigh) = 2
           /\ Len(brillouin) = 2
           /\ rayleigh[1] = peak_to_region(peaks, widths, 0)
           /\ rayleigh[2] = peak_to_region(peaks, widths, 2 * n + 1)
           /\ brillouin[1] = <<peak_to_region(peaks, widths, 1)[1],
                               peak_to_region(peaks, widths, n)[2]>>
           /\ brillouin[2] = <<peak_to_region(peaks, widths, n + 1)[1],
                               peak_to_region(peaks, widths, 2 * n)[2]>>
           /\ Contains(rayleigh[1], peaks[1])
           /\ Contains(rayleigh[2], peaks[2 * n + 2])
           /\ \A j \in 2..(n + 1) : Contains(brillouin[1], peaks[j])
           /\ \A j \in (n + 2)..(2 * n + 1) : Contains(brillouin[2], peaks[j])

\* six narrow peaks with two Brillouin samples: the two inner pairs are
\* merged
C20_Witness ==
    /\ ret.op = "find_peaks"
    /\ call.num_brillouin_samples = 2
    /\ ret.locals.peaks = <<4, 12, 22, 40, 52, 62>>
    /\ session.cm.brillouin_regions[ret.calib_key]
          = <<<<10, 23>>, <<38, 53>>>>
    /\ session.cm.rayleigh_regions[ret.calib_key] = <<<<2, 5>>, <<60, 63>>>>

\* C21 (as stated): every region find_peaks makes from a peak lies within
\* the spectrum: 0 <= start and end <= len(spectrum).
C21_RegionsClamped ==
    ret.op = "find_peaks"
    => \A region \in
            {ret.locals.regions_brillouin[j] :
                j \in DOMAIN ret.locals.regions_brillouin}
            \cup {ret.locals.regions_rayleigh[j] :
                    j \in DOMAIN ret.locals.regions_rayleigh} :
          0 <= region[1] /\ region[2] <= SpectrumLength

(***************************************************************************)
(* EvaluationController.evaluate with the fit batches of a pass unfolded:  *)
(* pool.starmap submits one task per region, the workers return them in    *)
(* any order, and the caller may set the abort flag at any moment.         *)
(* call holds the tasks submitted and still running, ret what the workers  *)
(* returned for the running batch and the tasks whose fits are stored.     *)
(***************************************************************************)
NoBatch == [op |-> "starmap", point |-> -1, kind |-> "none", pending |-> {},
            submitted |-> {}]
NoFits == [op |-> "starmap", fits |-> [t \in {} |-> 0], written |-> {}]

InitBatch ==
    /\ InitEvaluation
    /\ shared
    /\ results = EmptyResults
    /\ call = NoBatch
    /\ ret = NoFits

\* packed_data of the single-peak batch: one entry per region key
SingleTasks == {<<idx, "single", r>> : r \in 0..(Len(Regions) - 1)}

\* packed_data_multi_peak: one entry per Brillouin region
MultiTasks == {<<idx, "multi", r>> : r \in 0..(NrBrillouin - 1)}

\* what fit_spectra returns for one task: one fit per frame
TaskFits(task) ==
    IF task[2] = "single"
    THEN [Frames -> SingleFits(Regions[task[3] + 1])]
    ELSE [Frames -> MultiFits(Regions[task[3] + 1], nr_brillouin_peaks)]

\* a starmap that hands back whatever has returned so far
BatchReturnedEarly(tasks) == TRUE

\* pool.starmap blocks until every task of the batch has returned
BatchReturned(tasks) == tasks \cap call.pending = {}

\* the list starmap returns holds the workers' fits
ReturnedList(batch, kind) ==
    \A t \in DOMAIN ret.fits :
        t[2] = kind => \A f \in Frames : batch[<<t[3], f>>] = ret.fits[t][f]

\* the tasks of a batch whose fits the unpacking stores
Stored(tasks) == tasks \cap DOMAIN ret.fits

\* the pass reaches pool.starmap(self.fit_spectra, packed_data)
BatchSubmit ==
    /\ InLoop
    /\ CountStep
    /\ ~AbortRequested
    /\ "spectra" \in ExtractionOutcomes(idx)
    /\ "frequencies" \in FrequencyOutcomes
    /\ results' = WriteGeneral(results, CurrentPoint, idx)
    /\ call' = [op |-> "starmap", point |-> idx, kind |-> "single",
                pending |-> call.pending \cup SingleTasks,
                submitted |-> call.submitted \cup SingleTasks]
    /\ ret' = [ret EXCEPT !.fits = [t \in {} |-> 0]]
    /\ pc' = "Waiting"
    /\ UNCHANGED <<session, evm_nr_brillouin_peaks, evm_bounds_w0,
                   evm_bounds_fwhm, shared, abort, max_count, idx,
                   nr_brillouin_peaks, rayleigh_peak_initial, pool, trace,
                   max_count_writes, derived_calls>>

\* a worker finishes one task
TaskReturn ==
    /\ \E task \in call.pending :
       \E fits \in TaskFits(task) :
          /\ call' = [call EXCEPT !.pending = @ \ {task}]
          /\ ret' = IF task[1] = call.point /\ task[2] = call.kind
                    THEN [ret EXCEPT !.fits =
                             [t \in DOMAIN @ \cup {task} |->
                                 IF t = task THEN fits ELSE @[t]]]
                    ELSE ret
    /\ UNCHANGED evalVars

\* the caller sets abort.value while the coordinator waits in starmap
SetAbortWaiting ==
    /\ pc = "Waiting"
    /\ ~abort
    /\ abort' = TRUE
    /\ UNCHANGED <<session, evm_nr_brillouin_peaks, evm_bounds_w0,
                   evm_bounds_fwhm, results, shared, count, max_count, pc,
                   idx, nr_brillouin_peaks, rayleigh_peak_initial, pool,
                   trace, max_count_writes, derived_calls, call, ret>>

\* starmap returns, the fits are unpacked, nr_brillouin_peaks = 1
CollectSingle ==
    /\ pc = "Waiting"
    /\ call.kind = "single"
    /\ BatchReturned(SingleTasks)
    /\ ~(nr_brillouin_peaks > 1)
    /\ \E fits \in SingleBatches :
          /\ ReturnedList(fits, "single")
          /\ FinishPoint(WriteSingle(results, CurrentPoint, fits),
                         CurrentPoint)
    /\ ret' = [ret EXCEPT !.written = @ \cup Stored(SingleTasks)]
    /\ trace' = Append(trace, "fit")
    /\ idx' = idx + 1
    /\ pc' = "Running"
    /\ UNCHANGED <<session, evm_nr_brillouin_peaks, evm_bounds_w0,
                   evm_bounds_fwhm, shared, abort, count, max_count,
                   nr_brillouin_peaks, pool, max_count_writes, call>>

\* starmap returns, the fits are unpacked, zip() raises TypeError
CollectRaise ==
    /\ pc = "Waiting"
    /\ call.kind = "single"
    /\ BatchReturned(SingleTasks)
    /\ nr_brillouin_peaks > 1
    /\ MultiPeakZipRaises(
           create_bounds_is_none(evm_bounds_w0, NrRayleigh),
           create_bounds_fwhm_is_none(evm_bounds_fwhm))
    /\ \E fits \in SingleBatches :
          /\ ReturnedList(fits, "single")
          /\ results' = WriteSingle(results, CurrentPoint, fits)
    /\ ret' = [ret EXCEPT !.written = @ \cup Stored(SingleTasks)]
    /\ trace' = Append(trace, "raise")
    /\ pc' = "Raised"
    /\ UNCHANGED <<session, evm_nr_brillouin_peaks, evm_bounds_w0,
                   evm_bounds_fwhm, shared, abort, count, max_count, idx,
                   nr_brillouin_peaks, rayleigh_peak_initial, pool,
                   max_count_writes, derived_calls, call>>

\* starmap returns, the fits are unpacked, the multi-peak batch is submitted
CollectSubmitMulti ==
    /\ pc = "Waiting"
    /\ call.kind = "single"
    /\ BatchReturned(SingleTasks)
    /\ nr_brillouin_peaks > 1
    /\ ~MultiPeakZipRaises(
           create_bounds_is_none(evm_bounds_w0, NrRayleigh),
           create_bounds_fwhm_is_none(evm_bounds_fwhm))
    /\ \E fits \in SingleBatches :
          /\ ReturnedList(fits, "single")
          /\ results' = WriteSingle(results, CurrentPoint, fits)
    /\ call' = [call EXCEPT !.kind = "multi",
                            !.pending = @ \cup MultiTasks,
                            !.submitted = @ \cup MultiTasks]
    /\ ret' = [ret EXCEPT !.fits = [t \in {} |-> 0],
                          !.written = @ \cup Stored(SingleTasks)]
    /\ UNCHANGED <<session, evm_nr_brillouin_peaks, evm_bounds_w0,
                   evm_bounds_fwhm, shared, abort, count, max_count, pc, idx,
                   nr_brillouin_peaks, rayleigh_peak_initial, pool, trace,
                   max_count_writes, derived_calls>>

\* the multi-peak starmap returns and its fits are unpacked
CollectMulti ==
    /\ pc = "Waiting"
    /\ call.kind = "multi"
    /\ BatchReturned(MultiTasks)
    /\ \E multi \in MultiBatches(nr_brillouin_peaks) :
          /\ ReturnedList(multi, "multi")
          /\ FinishPoint(WriteMulti(results, CurrentPoint, multi,
                                    nr_brillouin_peaks),
                         CurrentPoint)
    /\ ret' = [ret EXCEPT !.written = @ \cup Stored(MultiTasks)]
    /\ trace' = Append(trace, "fit_multi")
    /\ idx' = idx + 1
    /\ pc' = "Running"
    /\ UNCHANGED <<session, evm_nr_brillouin_peaks, evm_bounds_w0,
                   evm_bounds_fwhm, shared, abort, count, max_count,
                   nr_brillouin_peaks, pool, max_count_writes, call>>

NextBatch ==
    \/ EvaluateFail
    \/ EvaluateInit
    \/ PointAbort
    \/ PointNoSpectra
    \/ PointNoFrequencies
    \/ BatchSubmit
    \/ TaskReturn
    \/ CollectSingle
    \/ CollectRaise
    \/ CollectSubmitMulti
    \/ CollectMulti
    \/ EvaluateFinish
    \/ SetAbort
    \/ SetAbortWaiting

SpecBatch == InitBatch /\ [][NextBatch]_vars

\* C23: the abort flag is examined only at the top of a pass, when no fit
\* task of any grid point is running and every submitted task's fits are
\* stored; so an abort set while a batch is in flight is honored only after
\* the point is written whole, and the running tasks are always those of
\* one grid point.
C23_AbortBetweenPoints ==
    /\ [](/\ pc \in {"Running", "Aborted", "Completed"}
             => call.pending = {} /\ ret.written = call.submitted
          /\ \A a, b \in call.pending : a[1] = b[1])
    /\ [][count' # count
          => /\ pc = "Running"
             /\ call.pending = {}
             /\ ret.written = call.submitted]_vars

\* the flag was set during a batch and honored at the next pass
C23_Witness ==
    /\ pc = "Aborted"
    /\ call.submitted # {}
    /\ \E i \in 1..Len(trace) : trace[i] \in {"fit", "fit_multi"}
    /\ idx < Len(ImageKeys(session.resolution))

(***************************************************************************)
(* EvaluationController.evaluate over a scan line long enough to pass a    *)
(* second multiple of ten: no regions, one frame.                          *)
(***************************************************************************)
MaxPeriodPoints == 11

PeriodSessions ==
    {[models |-> m, resolution |-> <<MaxPeriodPoints, 1, 1>>, nr_frames |-> 1,
      arc0 |-> TRUE, brillouin_regions |-> BrillouinRegions(0),
      rayleigh_regions |-> RayleighRegions(0)] :
        m \in {ModelNames, ModelNames \ {"evm"}}}

InitPeriod ==
    /\ session \in PeriodSessions
    /\ evm_nr_brillouin_peaks \in 1..MaxBrillouinPeaks
    /\ evm_bounds_w0 = NoBounds
    /\ evm_bounds_fwhm \in
          IF evm_nr_brillouin_peaks > 1 THEN BoundsSettings ELSE {NoBounds}
    /\ results = EmptyResults
    /\ shared = (evm_nr_brillouin_peaks = 1)
    /\ abort = IF shared THEN FALSE ELSE None
    /\ count = IF shared THEN 0 ELSE None
    /\ max_count = IF shared THEN 0 ELSE None
    /\ pc = "Idle"
    /\ idx = 0
    /\ nr_brillouin_peaks = None
    /\ rayleigh_peak_initial = None
    /\ pool = "none"
    /\ trace = <<>>
    /\ max_count_writes = 0
    /\ derived_calls = 0
    /\ call = NoCall
    /\ ret = NoCall

SpecPeriod == InitPeriod /\ [][Next]_vars

\* the passes of the trace that ran to their end at a loop position that is
\* a multiple of ten
FittedTenth ==
    {i \in 1..Len(trace) : /\ trace[i] \in {"fit", "fit_multi"}
                           /\ (i - 1) % 10 = 0}

\* C24 as stated: by the time the loop has passed position i, the derived
\* pass has run once for every multiple of ten up to i, skipped or not
C24_Original ==
    pc = "Running"
    => derived_calls = Cardinality({i \in 1..idx : (i - 1) % 10 = 0})

\* C24: the derived pass runs at the end of every pass at a loop position
\* 0, 10, 20, ... that yielded spectra and a frequency axis and was fitted,
\* not at a point that is skipped or whose pass ends by an exception, and
\* once more when the loop ends or a cancellation is honored.
C24_Amended ==
    InRun
    => derived_calls = Cardinality(FittedTenth)
                       + (IF pc \in {"Completed", "Aborted"} THEN 1 ELSE 0)

\* position 0 lacked a frequency axis, position 10 was fitted
C24_Witness ==
    /\ pc = "Completed"
    /\ Len(trace) = MaxPeriodPoints
    /\ trace[1] = "no_frequencies"
    /\ trace[11] = "fit"
    /\ derived_calls = 2

(***************************************************************************)
(* CalibrationController.calibrate, clear_calibration and                  *)
(* expected_frequencies, called in any order on one calibration key, with  *)
(* and without the shared progress counters.  A VIPA parameter set and a   *)
(* frequency axis are written as the number of the frame they were fitted  *)
(* to.                                                                     *)
(***************************************************************************)
MaxCalibCalls == 3

CalibKey == "1"

\* calib_key as passed by the caller: '' or the key
CalibKeyArguments == {"", CalibKey}

\* extract_spectra(calib_key): None, or a list of len frames
CalibExtractions ==
    {[is_none |-> TRUE, len |-> 0]}
    \cup {[is_none |-> FALSE, len |-> n] : n \in 0..MaxCalibFrames}

NotStored == [is_none |-> TRUE, list |-> <<>>]

\* the calibration model of the key: never calibrated, or as an earlier
\* calibrate left it
CalibrationModels ==
    {[brillouin_regions |-> [k \in {CalibKey} |-> loaded.brillouin],
      rayleigh_regions |-> [k \in {CalibKey} |-> loaded.rayleigh],
      brillouin_fits |-> [k \in {CalibKey} |-> fits],
      rayleigh_fits |-> [k \in {CalibKey} |-> fits],
      vipa_params |-> [k \in {CalibKey} |-> stored],
      frequencies |-> [k \in {CalibKey} |-> stored]] :
        loaded \in LoadedRegions,
        fits \in {{}, {<<0, 0>>}},
        stored \in {NotStored, [is_none |-> FALSE, list |-> <<0>>]}}

CalibrationSessions ==
    {[setup |-> setup, models |-> models, resolution |-> <<1, 1, 1>>,
      nr_frames |-> 1, arc0 |-> TRUE,
      brillouin_regions |-> BrillouinRegions(1),
      rayleigh_regions |-> RayleighRegions(1),
      calib_spectra |-> spectra, cm |-> cm] :
        setup \in BOOLEAN,
        models \in {m \in SUBSET ModelNames :
                       Cardinality(ModelNames \ m) <= 1},
        spectra \in CalibExtractions,
        cm \in CalibrationModels}

InitCalib ==
    /\ session \in CalibrationSessions
    /\ evm_nr_brillouin_peaks = 1
    /\ evm_bounds_w0 = NoBounds
    /\ evm_bounds_fwhm = NoBounds
    /\ results \in IF "evm" \in session.models
                   THEN {EmptyResults, EarlierResults(session)}
                   ELSE {EmptyResults}
    /\ shared \in BOOLEAN
    /\ abort = None
    /\ count = IF shared THEN 0 ELSE None
    /\ max_count = IF shared THEN 0 ELSE None
    /\ pc = "Ready"
    /\ idx = 0
    /\ nr_brillouin_peaks = None
    /\ rayleigh_peak_initial = None
    /\ pool = "none"
    /\ trace = <<>>
    /\ max_count_writes = 0
    /\ derived_calls = 0
    /\ call = NoCall
    /\ ret = NoCall

\* "if not calib_key or not setup or not em or not cm"
PrerequisiteMissing(s, calib_key) ==
    \/ calib_key = ""
    \/ ~s.setup
    \/ "em" \notin s.models
    \/ "cm" \notin s.models

\* a check that lets an empty list of spectra pass
SpectraNone(spectra) == spectra.is_none

\* "if spectra is None or len(spectra) == 0"
NoCalibSpectra(spectra) == spectra.is_none \/ spectra.len = 0

\* max_count.value = -1
TotalFailed == max_count' = IF shared THEN -1 ELSE max_count

\* a counter that counts every frame
CountEveryFrame(frames, fitted) ==
    IF shared THEN count + Cardinality(frames) ELSE count

\* count.value += 1 in every frame whose VIPA fit succeeded
CountFitted(frames, fitted) ==
    IF shared THEN count + Cardinality(fitted) ELSE count

\* vipa_params and frequencies as the loop builds them: one append per
\* frame whose fit succeeded
AppendedList(frames, fitted) == Ascending(fitted)

\* evm.invalidate_results()
invalidate_results(res) == EmptyResults

\* the end of calibrate and clear_calibration
Invalidate ==
    /\ results' = IF "evm" \in session.models
                  THEN invalidate_results(results) ELSE results
    /\ trace' = IF "evm" \in session.models
                THEN Append(trace, "invalidate_results") ELSE trace

InCalib == pc = "Ready" /\ idx < MaxCalibCalls

\* calibrate returns at the first check
CalibrateRefused ==
    /\ InCalib
    /\ \E calib_key \in CalibKeyArguments :
          /\ PrerequisiteMissing(session, calib_key)
          /\ call' = [op |-> "calibrate", calib_key |-> calib_key]
    /\ ret' = [op |-> "calibrate", refused |-> TRUE]
    /\ TotalFailed
    /\ idx' = idx + 1
    /\ UNCHANGED <<session, evm_nr_brillouin_peaks, evm_bounds_w0,
                   evm_bounds_fwhm, results, shared, abort, count, pc,
                   nr_brillouin_peaks, rayleigh_peak_initial, pool, trace,
                   max_count_writes, derived_calls>>

\* calibrate returns because the key has no spectra
CalibrateWithoutSpectra ==
    /\ InCalib
    /\ ~PrerequisiteMissing(session, CalibKey)
    /\ NoCalibSpectra(session.calib_spectra)
    /\ call' = [op |-> "calibrate", calib_key |-> CalibKey]
    /\ ret' = [op |-> "calibrate", refused |-> TRUE]
    /\ TotalFailed
    /\ idx' = idx + 1
    /\ UNCHANGED <<session, evm_nr_brillouin_peaks, evm_bounds_w0,
                   evm_bounds_fwhm, results, shared, abort, count, pc,
                   nr_brillouin_peaks, rayleigh_peak_initial, pool, trace,
                   max_count_writes, derived_calls>>

\* calibrate fits the regions and the VIPA parameters of every frame
CalibrateFrames ==
    /\ InCalib
    /\ ~PrerequisiteMissing(session, CalibKey)
    /\ ~NoCalibSpectra(session.calib_spectra)
    /\ LET frames == 0..(session.calib_spectra.len - 1)
           fits(regions) == (0..(Len(regions) - 1)) \X frames
           rayleigh == fits(session.cm.rayleigh_regions[CalibKey])
           brillouin == fits(session.cm.brillouin_regions[CalibKey])
       IN  \E fitted \in SUBSET frames :
              /\ (rayleigh \cup brillouin = {}) => fitted = {}
              /\ session' =
                   [session EXCEPT
                      !.cm.rayleigh_fits[CalibKey] = rayleigh,
                      !.cm.brillouin_fits[CalibKey] = brillouin,
                      !.cm.vipa_params[CalibKey] =
                          [is_none |-> FALSE,
                           list |-> AppendedList(frames, fitted)],
                      !.cm.frequencies[CalibKey] =
                          [is_none |-> FALSE,
                           list |-> AppendedList(frames, fitted)]]
              /\ max_count' = IF shared
                              THEN max_count + session.calib_spectra.len
                              ELSE max_count
              /\ count' = CountFitted(frames, fitted)
              /\ ret' = [op |-> "calibrate", refused |-> FALSE,
                         frames |-> frames, fitted |-> fitted]
    /\ call' = [op |-> "calibrate", calib_key |-> CalibKey]
    /\ Invalidate
    /\ idx' = idx + 1
    /\ UNCHANGED <<evm_nr_brillouin_peaks, evm_bounds_w0, evm_bounds_fwhm,
                   shared, abort, pc, nr_brillouin_peaks,
                   rayleigh_peak_initial, pool, max_count_writes,
                   derived_calls>>

\* clear_calibration without a calibration model
ClearCalibrationReturns ==
    /\ InCalib
    /\ "cm" \notin session.models
    /\ call' = [op |-> "clear_calibration", calib_key |-> CalibKey]
    /\ ret' = [op |-> "clear_calibration", refused |-> TRUE]
    /\ idx' = idx + 1
    /\ UNCHANGED <<session, evm_nr_brillouin_peaks, evm_bounds_w0,
                   evm_bounds_fwhm, results, shared, abort, count, max_count,
                   pc, nr_brillouin_peaks, rayleigh_peak_initial, pool,
                   trace, max_count_writes, derived_calls>>

\* clear_calibration
ClearCalibration ==
    /\ InCalib
    /\ "cm" \in session.models
    /\ session' = [session EXCEPT !.cm.brillouin_fits[CalibKey] = {},
                                  !.cm.rayleigh_fits[CalibKey] = {},
                                  !.cm.frequencies[CalibKey] = NotStored,
                                  !.cm.vipa_params[CalibKey] = NotStored]
    /\ call' = [op |-> "clear_calibration", calib_key |-> CalibKey]
    /\ ret' = [op |-> "clear_calibration", refused |-> FALSE]
    /\ Invalidate
    /\ idx' = idx + 1
    /\ UNCHANGED <<evm_nr_brillouin_peaks, evm_bounds_w0, evm_bounds_fwhm,
                   shared, abort, count, max_count, pc, nr_brillouin_peaks,
                   rayleigh_peak_initial, pool, max_count_writes,
                   derived_calls>>

\* expected_frequencies(calib_key, current_frame): None, or the frame whose
\* VIPA parameters enter the result
expected_frequencies(cm, calib_key, current_frame) ==
    IF \/ cm.vipa_params[calib_key].is_none
       \/ current_frame > Len(cm.vipa_params[calib_key].list) - 1
    THEN [is_none |-> TRUE, frame |-> -1]
    ELSE [is_none |-> FALSE,
          frame |-> cm.vipa_params[calib_key].list[current_frame + 1]]

ExpectedFrequencies ==
    /\ InCalib
    /\ "cm" \in session.models
    /\ \E current_frame \in 0..(MaxCalibFrames - 1) :
          /\ call' = [op |-> "expected_frequencies", calib_key |-> CalibKey,
                      current_frame |-> current_frame]
          /\ ret' = [op |-> "expected_frequencies",
                     value |-> expected_frequencies(session.cm, CalibKey,
                                                    current_frame)]
    /\ idx' = idx + 1
    /\ UNCHANGED <<session, evm_nr_brillouin_peaks, evm_bounds_w0,
                   evm_bounds_fwhm, results, shared, abort, count, max_count,
                   pc, nr_brillouin_peaks, rayleigh_peak_initial, pool,
                   trace, max_count_writes, derived_calls>>

NextCalib ==
    \/ CalibrateRefused
    \/ CalibrateWithoutSpectra
    \/ CalibrateFrames
    \/ ClearCalibrationReturns
    \/ ClearCalibration
    \/ ExpectedFrequencies

SpecCalib == InitCalib /\ [][NextCalib]_vars

\* a step that is a calibrate call which went through the frames
CalibratedStep ==
    /\ idx' = idx + 1
    /\ ret'.op = "calibrate"
    /\ ~ret'.refused

\* the frames of a list of VIPA parameter sets or frequency axes
FramesOf(list) == {list[k] : k \in DOMAIN list}

\* C25: in calibrate a frame whose VIPA fit returns None adds no VIPA
\* parameter set and no frequency axis and does not advance the completed
\* counter, and the frames after it are still processed; the total counter
\* grows by the number of frames, so the completed counter grows by at most
\* as much, and by as much exactly when every frame's fit succeeded.
C25_FailedFramesSkipped ==
    [][CalibratedStep
       => LET vipa == session'.cm.vipa_params[CalibKey].list
              freq == session'.cm.frequencies[CalibKey].list
          IN  /\ Len(vipa) = Cardinality(ret'.fitted)
              /\ Len(freq) = Cardinality(ret'.fitted)
              /\ FramesOf(vipa) = ret'.fitted
              /\ FramesOf(freq) = ret'.fitted
              /\ shared
                 => /\ max_count' - max_count = session.calib_spectra.len
                    /\ count' - count = Cardinality(ret'.fitted)
                    /\ count' - count <= max_count' - max_count
                    /\ (count' - count = max_count' - max_count)
                          <=> (ret'.fitted = ret'.frames)]_vars

\* of two frames the first failed and the second was fitted
C25_Witness ==
    /\ ret.op = "calibrate"
    /\ ~ret.refused
    /\ shared
    /\ ret.frames = {0, 1}
    /\ ret.fitted = {1}
    /\ count = 1
    /\ max_count = 2
    /\ Len(session.cm.vipa_params[CalibKey].list) = 1

\* a step that is a calibrate call
CalibrateStep == idx' = idx + 1 /\ call'.op = "calibrate"

\* the call fails a check of calibrate: key, setup, extraction model,
\* calibration model, spectra
FailsPrerequisites ==
    \/ call'.calib_key = ""
    \/ ~session.setup
    \/ "em" \notin session.models
    \/ "cm" \notin session.models
    \/ session.calib_spectra.is_none
    \/ session.calib_spectra.len = 0

\* C27: a calibrate call that passes its checks, and a clear_calibration
\* with a calibration model, end by invalidating the evaluation results
\* when there is an evaluation model; a calibrate call that fails a check
\* sets the total counter to -1 and leaves fits, VIPA parameters, frequency
\* axes and evaluation results as they were.
C27_InvalidateOrLeave ==
    [][/\ (CalibrateStep /\ ~FailsPrerequisites /\ "evm" \in session.models)
          => trace' = Append(trace, "invalidate_results")
       /\ (/\ idx' = idx + 1
           /\ call'.op = "clear_calibration"
           /\ "cm" \in session.models
           /\ "evm" \in session.models)
          => trace' = Append(trace, "invalidate_results")
       /\ (CalibrateStep /\ FailsPrerequisites)
          => /\ shared => max_count' = -1
             /\ session' = session
             /\ results' = results
             /\ trace' = trace]_vars

\* a calibration that invalidated the results, then a call without a key
C27_Witness ==
    /\ call.op = "calibrate"
    /\ call.calib_key = ""
    /\ shared
    /\ max_count = -1
    /\ trace = <<"invalidate_results">>
    /\ session.cm.vipa_params[CalibKey].list = <<0, 1>>

\* C28: after calibrate the VIPA list and the frequency list of the key are
\* equally long, not longer than the number of frames, and entry k of each
\* is that of frame k, so that expected_frequencies(key, frame) uses the
\* fit of that frame.
C28_EntriesByFrame ==
    /\ (ret.op = "calibrate" /\ ~ret.refused)
       => LET vipa == session.cm.vipa_params[CalibKey].list
              freq == session.cm.frequencies[CalibKey].list
          IN  /\ Len(vipa) = Len(freq)
              /\ Len(vipa) <= Cardinality(ret.frames)
              /\ \A k \in DOMAIN vipa : vipa[k] = k - 1 /\ freq[k] = k - 1
    /\ (ret.op = "expected_frequencies" /\ ~ret.value.is_none)
       => ret.value.frame = call.current_frame

(***************************************************************************)
(* evaluate with set_nr_brillouin_peaks called beside it.                  *)
(***************************************************************************)
NextSnapshot ==
    \/ EvaluateFail
    \/ EvaluateInit
    \/ PointAbort
    \/ PointNoSpectra
    \/ PointNoFrequencies
    \/ PointFit
    \/ PointFitMulti
    \/ PointRaise
    \/ EvaluateFinish
    \/ SetAbort
    \/ SetNrBrillouinPeaks

SpecSnapshot == Init /\ [][NextSnapshot]_vars

\* the peak-axis slots of the Brillouin tensors that hold a fit at point p
SlotsWritten(p) ==
    {t[6] : t \in {c \in DOMAIN results["brillouin_peak_position_f"].data :
                      /\ <<c[1], c[2], c[3]>> = p
                      /\ ~IsNaN(results["brillouin_peak_position_f"].data[c])}}

C29_IndexWindow ==
    ret.op = "find_peaks"
    => LET peaks == ret.locals.peaks
           center == ret.locals.center
           samples == call.num_brillouin_samples
           n == Len(peaks)
           nl == Cardinality({i \in 1..n :
                                 peaks[i] * center.den <= center.num})
       IN  /\ n >= 2 + 2 * samples
           /\ ret.locals.indices_brillouin
                 = [j \in 1..(2 * samples) |-> nl - samples + (j - 1)]
           /\ ret.locals.indices_rayleigh
                 = <<nl - samples - 1, nl + samples>>
           /\ 0 <= nl - samples - 1
           /\ nl + samples <= n - 1

\* seven peaks, two samples, a centre of mass with one peak to its right:
\* the centre is moved left between the peaks at 30 and 40
C29_Witness ==
    /\ ret.op = "find_peaks"
    /\ call.num_brillouin_samples = 2
    /\ Len(ret.locals.peaks) = 7
    /\ ret.locals.center = [num |-> 70, den |-> 2]
    /\ ret.locals.indices_rayleigh = <<1, 6>>
    /\ ret.locals.indices_brillouin = <<2, 3, 4, 5>>

\* C30: two different index triples that get_key_from_indices accepts for
\* one resolution never get the same key, every key it returns decodes
\* through get_indices_from_key to a triple inside the grid, and
\* get_indices_from_key raises for every key >= dim_x * dim_y * dim_z.
C30_KeysDistinct ==
    /\ (/\ call.op = "get_key_from_indices"
        /\ ret # NoCall
        /\ ret.raised = None)
       => \A other \in KeyIndices \X KeyIndices \X KeyIndices :
             other # call.ind
             => LET key == get_key_from_indices(call.resolution, other[1],
                                                other[2], other[3])
                IN  key.raised # None \/ key.value # ret.value
    /\ (call.op = "get_indices_from_key" /\ call.ind # <<>>)
       => /\ ret.raised = None
          /\ \A k \in 1..3 :
                0 <= ret.value[k] /\ ret.value[k] < call.resolution[k]
    /\ (/\ call.op = "get_indices_from_key"
        /\ ret # NoCall
        /\ ParseInt(call.key) >= call.resolution[1] * call.resolution[2]
                                 * call.resolution[3])
       => ret.raised # None

=============================================================================
